---- MODULE Spec2Model ----
(***************************************************************************)
(* agent-board: the task lifecycle engine (src/src/services.ts), the       *)
(* file-backed store with its per-collection AsyncMutex (src/src/store.ts) *)
(* and the REST handlers that call them (routes).                          *)
(***************************************************************************)
EXTENDS Integers, Sequences, FiniteSets, TLC

(***************************************************************************)
(* Bounds of the model.                                                    *)
(***************************************************************************)
\* SpecGate: ids the id generator hands out, comments one task collects
GateTasks == 2
GateComments == 1
\* SpecReview
ReviewTasks == 1
ReviewComments == 1
\* SpecRetry, SpecRetryPatch: also the largest maxRetries a request carries
RetryTasks == 1
RetryComments == 3
MaxRetriesArg == 2
\* SpecPatch
PatchTasks == 1
\* SpecLock, SpecLockFair: concurrent callers of withLock
LockCallers == 3
\* SpecFile: writes of tasks.json
FileWrites == 3
\* SpecChain: ids create requests may take, ids in all, comments per task
ChainCreates == 1
ChainTasks == 2
ChainComments == 1
\* SpecAudit: ids, comments per task, ledger entries
AuditTasks == 2
AuditComments == 1
AuditEntries == 3
\* SpecDeps: ids
DepsTasks == 3
\* SpecCycle: task ids in the graph
CycleIds == 3
\* SpecReject: ids, comments per task
RejectTasks == 2
RejectComments == 1
\* SpecMetrics: comments per task, the last millisecond of the clock
MetricsComments == 1
MaxClock == 3
\* SpecMirror: ids create requests may take, ids in all, comments per task
MirrorCreates == 1
MirrorTasks == 2
MirrorComments == 1
\* SpecQuery: ledger entries appended
QueryEntries == 3
\* SpecBackup: writes per collection and milliseconds after the first state
BackupWrites == 3
BackupTicks == 2
\* SpecCorrupt: items a written collection may hold, and milliseconds
CorruptWrites == 2
CorruptTicks == 1
\* SpecDelete: ids in all, comments per task
DeleteTasks == 2
DeleteComments == 1
\* SpecCascade: ids in all, comments per task
CascadeTasks == 3
CascadeComments == 1
\* SpecNotify: ids in all, comments per task
NotifyTasks == 2
NotifyComments == 1
\* SpecComments: comments per task
CommentCap == 2
\* SpecRetryRace: comments per task
RaceComments == 3
\* SpecRaw: comments per task
RawComments == 1
\* SpecRespawn: ids in all, comments per task
RespawnTasks == 3
RespawnComments == 1
\* SpecCleanup: comments per task
CleanupComments == 1

\* SpecLoop: the length of the proposed dependency list
LoopDeps == 3
\* SpecMissing: ids in all, comments per task
MissingTasks == 2
MissingComments == 1

(***************************************************************************)
(* Program constants and value spaces.                                     *)
(***************************************************************************)
\* JavaScript undefined in a numeric or id-valued optional field of Task
Undefined == -1
\* `updated.maxRetries ?? 2`
DefaultMaxRetries == 2
\* GET /audit: `limit ? parseInt(limit, 10) : 100`
DefaultAuditLimit == 100
\* store.ts: const MAX_BACKUPS = 50
MAX_BACKUPS == 50

VALID_COLUMNS == {"backlog", "todo", "doing", "review", "done", "failed"}

\* Task.nextTask when the task carries no template
NoNextTask ==
  [present |-> FALSE, title |-> "", assignee |-> "", priority |-> "",
   hasTags |-> FALSE, tags |-> {}]

\* an id that names no task, now or later
GhostId == 0

\* what Array.find yields when no task has the id (undefined)
NoTask == [id |-> 0]

(***************************************************************************)
(* Store: pure parts of the task operations (the function each one hands   *)
(* to withLock) and the lock-free reads.                                   *)
(***************************************************************************)
\* tasks.findIndex(t => t.id === id), 1-based; 0 stands for -1
FindIndex(ts, id) ==
  IF \E i \in 1..Len(ts) : ts[i].id = id
  THEN CHOOSE i \in 1..Len(ts) : ts[i].id = id /\ \A j \in 1..(i - 1) : ts[j].id # id
  ELSE 0

getTask(ts, id) ==
  IF FindIndex(ts, id) = 0 THEN NoTask ELSE ts[FindIndex(ts, id)]

Exists(ts, id) == FindIndex(ts, id) # 0

\* JavaScript truthiness of updates.<key> for a column-valued key
Truthy(updates, key) == key \in DOMAIN updates /\ updates[key] # ""

\* createTask: status is derived from column, then the task is pushed
createTask(ts, task) == Append(ts, [task EXCEPT !.status = task.column])

\* mutant: the merge alone, without the column/status rule
MergeUpdatesSpreadOnly(task, updates, t) ==
  [updates @@ task EXCEPT !.updatedAt = t]

\* mutant: status is looked at first, so it wins when both are supplied
MergeUpdatesStatusFirst(task, updates, t) ==
  LET merged == [updates @@ task EXCEPT !.updatedAt = t]
  IN IF Truthy(updates, "status")
     THEN [merged EXCEPT !.column = updates.status, !.status = updates.status]
     ELSE IF Truthy(updates, "column")
          THEN [merged EXCEPT !.status = updates.column]
          ELSE merged

\* { ...tasks[idx], ...updates, updatedAt }, then the column/status rule
MergeUpdates(task, updates, t) ==
  LET merged == [updates @@ task EXCEPT !.updatedAt = t]
  IN IF Truthy(updates, "column")
     THEN [merged EXCEPT !.status = updates.column]
     ELSE IF Truthy(updates, "status")
          THEN [merged EXCEPT !.column = updates.status, !.status = updates.status]
          ELSE merged

\* mutant: a raw update that enters done stamps completedAt, as the engine does
updateTaskStamped(ts, id, updates, t) ==
  LET idx == FindIndex(ts, id)
      stamped == IF Truthy(updates, "column") /\ updates.column = "done"
                 THEN [completedAt |-> t] @@ updates ELSE updates
  IN IF idx = 0 THEN ts ELSE [ts EXCEPT ![idx] = MergeUpdates(ts[idx], stamped, t)]

updateTask(ts, id, updates, t) ==
  LET idx == FindIndex(ts, id)
  IN IF idx = 0 THEN ts ELSE [ts EXCEPT ![idx] = MergeUpdates(ts[idx], updates, t)]

\* mutant: the splice runs also when findIndex returned -1, where it takes
\* the last entity out
deleteTaskSpliceAlways(ts, id) ==
  LET idx == FindIndex(ts, id)
  IN IF idx = 0 THEN SubSeq(ts, 1, Len(ts) - 1)
     ELSE SubSeq(ts, 1, idx - 1) \o SubSeq(ts, idx + 1, Len(ts))

deleteTask(ts, id) ==
  LET idx == FindIndex(ts, id)
  IN IF idx = 0 THEN ts
     ELSE SubSeq(ts, 1, idx - 1) \o SubSeq(ts, idx + 1, Len(ts))

\* mutant: the new comment takes the place of the list
addCommentAlone(ts, id, comment, t) ==
  LET idx == FindIndex(ts, id)
  IN IF idx = 0 THEN ts
     ELSE [ts EXCEPT ![idx] =
             [@ EXCEPT !.comments = <<[comment EXCEPT !.at = t]>>, !.updatedAt = t]]

addComment(ts, id, comment, t) ==
  LET idx == FindIndex(ts, id)
  IN IF idx = 0 THEN ts
     ELSE [ts EXCEPT ![idx] =
             [@ EXCEPT !.comments = Append(@, [comment EXCEPT !.at = t]),
                       !.updatedAt = t]]

\* registerAgent: replace the record with the same id, or push
registerAgent(as, agent) ==
  IF \E i \in 1..Len(as) : as[i].id = agent.id
  THEN [as EXCEPT ![CHOOSE i \in 1..Len(as) :
                      as[i].id = agent.id /\ \A j \in 1..(i - 1) : as[j].id # agent.id] = agent]
  ELSE Append(as, agent)

Comment(author, kind, n, m, ref) ==
  [author |-> author, kind |-> kind, n |-> n, m |-> m, ref |-> ref, at |-> 0]


(***************************************************************************)
(* Lifecycle engine: moveTask (services.ts), one phase per operator.       *)
(***************************************************************************)
\* `updated.retryCount || 0` and `updated.maxRetries ?? 2`
RetryCountOf(task) == IF task.retryCount = Undefined THEN 0 ELSE task.retryCount
MaxRetriesOf(task) == IF task.maxRetries = Undefined THEN DefaultMaxRetries ELSE task.maxRetries

\* mutant: a dependency counts as unresolved only while it is in backlog
BlockersOnlyBacklog(ts, current) ==
  {i \in 1..Len(current.dependencies) :
     /\ Exists(ts, current.dependencies[i])
     /\ getTask(ts, current.dependencies[i]).column = "backlog"}

\* mutant: a dependency that is not in the store counts as unresolved
BlockersMissingToo(ts, current) ==
  {i \in 1..Len(current.dependencies) :
     \/ ~Exists(ts, current.dependencies[i])
     \/ getTask(ts, current.dependencies[i]).column # "done"}

\* the dependencies of `current` that exist and are not done
Blockers(ts, current) ==
  {i \in 1..Len(current.dependencies) :
     /\ Exists(ts, current.dependencies[i])
     /\ getTask(ts, current.dependencies[i]).column # "done"}

\* mutant: the gate stops only a move that comes straight from doing
NeedsReviewFromDoing(current, column) ==
  column = "done" /\ current.requiresReview /\ current.column = "doing"

\* the quality gate's condition
NeedsReview(current, column) ==
  column = "done" /\ current.requiresReview /\ current.column # "review"

\* the checks that end moveTask before any write; "" when the move may proceed
MoveError(ts, taskId, column) ==
  IF column = "" THEN "column is required"
  ELSE IF column \notin VALID_COLUMNS THEN "column must be one of"
  ELSE IF ~Exists(ts, taskId) THEN "Task not found"
  ELSE LET current == getTask(ts, taskId)
       IN IF /\ column = "doing"
             /\ Len(current.dependencies) > 0
             /\ Blockers(ts, current) # {}
          THEN "Blocked by unresolved dependencies"
          ELSE IF NeedsReview(current, column)
               THEN "Quality gate"
               ELSE ""

\* mutant: completedAt is kept once set, the duration is not
MoveUpdatesKeepCompleted(current, column, t) ==
  LET started == IF column = "doing" /\ current.startedAt = Undefined
                 THEN [startedAt |-> t] ELSE <<>>
      completed == IF column = "done" /\ current.completedAt = Undefined
                   THEN [completedAt |-> t] ELSE <<>>
      duration == IF column = "done" /\ current.startedAt # Undefined
                  THEN [durationMs |-> t - current.startedAt] ELSE <<>>
      failed == IF column = "failed" THEN [failedAt |-> t] ELSE <<>>
  IN [column |-> column] @@ started @@ completed @@ duration @@ failed

\* mutant: every move to doing restarts the task
MoveUpdatesRestart(current, column, t) ==
  LET started == IF column = "doing" THEN [startedAt |-> t] ELSE <<>>
      completed == IF column = "done" THEN [completedAt |-> t] ELSE <<>>
      duration == IF column = "done" /\ current.startedAt # Undefined
                  THEN [durationMs |-> t - current.startedAt] ELSE <<>>
      failed == IF column = "failed" THEN [failedAt |-> t] ELSE <<>>
  IN [column |-> column] @@ started @@ completed @@ duration @@ failed

\* the update payload with the metrics
MoveUpdates(current, column, t) ==
  LET started == IF column = "doing" /\ current.startedAt = Undefined
                 THEN [startedAt |-> t] ELSE <<>>
      completed == IF column = "done" THEN [completedAt |-> t] ELSE <<>>
      duration == IF column = "done" /\ current.startedAt # Undefined
                  THEN [durationMs |-> t - current.startedAt] ELSE <<>>
      failed == IF column = "failed" THEN [failedAt |-> t] ELSE <<>>
  IN [column |-> column] @@ started @@ completed @@ duration @@ failed

\* auto-retry, run on the task returned by the first write
RetryUpdates(updated) ==
  [column |-> "todo", retryCount |-> RetryCountOf(updated) + 1, failedAt |-> Undefined]

\* mutant: one retry too many
WillRetryOffByOne(updated) == RetryCountOf(updated) <= MaxRetriesOf(updated)

WillRetry(updated) == RetryCountOf(updated) < MaxRetriesOf(updated)

MoveRetry(ts, updated, t) ==
  IF WillRetry(updated)
  THEN addComment(updateTask(ts, updated.id, RetryUpdates(updated), t), updated.id,
                  Comment("system", "Auto-retry", RetryCountOf(updated) + 1,
                          MaxRetriesOf(updated), updated.id), t)
  ELSE addComment(ts, updated.id,
                  Comment("system", "Max retries exhausted", MaxRetriesOf(updated),
                          MaxRetriesOf(updated), updated.id), t)

\* t.dependencies.includes(taskId)
Includes(deps, id) == \E i \in 1..Len(deps) : deps[i] = id

\* the dependents loop over the snapshot allTasks, from index i on
RECURSIVE NotifyFrom(_, _, _, _, _)
NotifyFrom(ts, allTasks, i, taskId, t) ==
  IF i > Len(allTasks) THEN ts
  ELSE NotifyFrom(
         IF Includes(allTasks[i].dependencies, taskId)
         THEN addComment(ts, allTasks[i].id,
                         Comment("system", "Dependency resolved", 0, 0, taskId), t)
         ELSE ts,
         allTasks, i + 1, taskId, t)

\* mutant: only the dependents in the project of the moved task are told
MoveNotifySameProject(ts, taskId, t) ==
  [i \in 1..Len(ts) |->
     IF /\ Includes(ts[i].dependencies, taskId)
        /\ ts[i].projectId = getTask(ts, taskId).projectId
     THEN [ts[i] EXCEPT !.comments =
             Append(@, Comment("system", "Dependency resolved", 0, 0, taskId))]
     ELSE ts[i]]

MoveNotify(ts, taskId, t) == NotifyFrom(ts, ts, 1, taskId, t)

\* the task spawned from updated.nextTask
ChainedTask(updated, newId, t) ==
  LET nt == updated.nextTask
  IN [id |-> newId,
      projectId |-> updated.projectId,
      title |-> nt.title,
      status |-> "todo",
      column |-> "todo",
      assignee |-> nt.assignee,
      priority |-> IF nt.priority # "" THEN nt.priority ELSE updated.priority,
      tags |-> IF nt.hasTags THEN nt.tags ELSE updated.tags,
      dependencies |-> <<>>,
      comments |-> <<[Comment("system", "Auto-created", 0, 0, updated.id) EXCEPT !.at = t]>>,
      nextTask |-> NoNextTask,
      parentTaskId |-> updated.id,
      startedAt |-> Undefined,
      completedAt |-> Undefined,
      failedAt |-> Undefined,
      durationMs |-> Undefined,
      retryCount |-> Undefined,
      maxRetries |-> Undefined,
      requiresReview |-> FALSE,
      updatedAt |-> t]

\* mutant: the template is applied on every move
ChainsOnAnyMove(updated, column) == updated.nextTask.present

Chains(updated, column) == column = "done" /\ updated.nextTask.present

\* mutant: the column is written before the gates are looked at
moveTaskWriteFirst(ts, taskId, column, newId, t) ==
  LET err == MoveError(ts, taskId, column)
      current == getTask(ts, taskId)
      ts1 == IF Exists(ts, taskId) /\ column \in VALID_COLUMNS
             THEN updateTask(ts, taskId, MoveUpdates(current, column, t), t) ELSE ts
  IN IF err # ""
     THEN [tasks |-> ts1, error |-> err, requiresReview |-> (err = "Quality gate"),
           retried |-> FALSE, task |-> NoTask, chained |-> FALSE]
     ELSE LET updated == getTask(ts1, taskId)
              ts2 == IF column = "failed" THEN MoveRetry(ts1, updated, t) ELSE ts1
              ts3 == IF column = "done" THEN MoveNotify(ts2, taskId, t) ELSE ts2
              ts4 == IF Chains(updated, column)
                     THEN createTask(ts3, ChainedTask(updated, newId, t)) ELSE ts3
          IN [tasks |-> ts4, error |-> "", requiresReview |-> FALSE,
              retried |-> (column = "failed" /\ WillRetry(updated)),
              task |-> updated, chained |-> Chains(updated, column)]

\* mutant: a task that has a successor already spawns no further one
moveTaskChainOnce(ts, taskId, column, newId, t) ==
  LET err == MoveError(ts, taskId, column)
  IN IF err # ""
     THEN [tasks |-> ts, error |-> err, requiresReview |-> (err = "Quality gate"),
           retried |-> FALSE, task |-> NoTask, chained |-> FALSE]
     ELSE LET current == getTask(ts, taskId)
              ts1 == updateTask(ts, taskId, MoveUpdates(current, column, t), t)
              updated == getTask(ts1, taskId)
              ts2 == IF column = "failed" THEN MoveRetry(ts1, updated, t) ELSE ts1
              ts3 == IF column = "done" THEN MoveNotify(ts2, taskId, t) ELSE ts2
              chains == /\ Chains(updated, column)
                        /\ \A i \in 1..Len(ts) : ts[i].parentTaskId # taskId
              ts4 == IF chains THEN createTask(ts3, ChainedTask(updated, newId, t)) ELSE ts3
          IN [tasks |-> ts4, error |-> "", requiresReview |-> FALSE,
              retried |-> (column = "failed" /\ WillRetry(updated)),
              task |-> updated, chained |-> chains]

\* moveTask run to completion with no other request in between
moveTask(ts, taskId, column, newId, t) ==
  LET err == MoveError(ts, taskId, column)
  IN IF err # ""
     THEN [tasks |-> ts, error |-> err, requiresReview |-> (err = "Quality gate"),
           retried |-> FALSE, task |-> NoTask, chained |-> FALSE]
     ELSE LET current == getTask(ts, taskId)
              ts1 == updateTask(ts, taskId, MoveUpdates(current, column, t), t)
              updated == getTask(ts1, taskId)
              ts2 == IF column = "failed" THEN MoveRetry(ts1, updated, t) ELSE ts1
              ts3 == IF column = "done" THEN MoveNotify(ts2, taskId, t) ELSE ts2
              ts4 == IF Chains(updated, column)
                     THEN createTask(ts3, ChainedTask(updated, newId, t)) ELSE ts3
          IN [tasks |-> ts4, error |-> "", requiresReview |-> FALSE,
              retried |-> (column = "failed" /\ WillRetry(updated)),
              task |-> updated, chained |-> Chains(updated, column)]

(***************************************************************************)
(* Routes: the dependency cycle check and the request bodies.              *)
(***************************************************************************)
RECURSIVE HasCycleLoop(_, _, _, _)
HasCycleLoop(ts, taskId, stack, visited) ==
  IF stack = <<>> THEN FALSE
  ELSE LET current == stack[Len(stack)]
           rest == SubSeq(stack, 1, Len(stack) - 1)
       IN IF current = taskId THEN TRUE
          ELSE IF current \in visited THEN HasCycleLoop(ts, taskId, rest, visited)
          ELSE HasCycleLoop(ts, taskId,
                            IF Exists(ts, current)
                            THEN rest \o getTask(ts, current).dependencies ELSE rest,
                            visited \cup {current})

\* mutant: no list is looked at
hasCycleNever(ts, taskId, dependencies) == FALSE

\* mutant: the proposed list is looked at, the stored lists are not followed
hasCycleDirect(ts, taskId, dependencies) == Includes(dependencies, taskId)

\* mutant: no id is remembered as visited
SeenNever(visited, current) == FALSE

\* visited.has(current)
Seen(visited, current) == current \in visited

hasCycle(ts, taskId, dependencies) == HasCycleLoop(ts, taskId, dependencies, {})

\* POST /tasks: the task built from a validated body
NewTask(body, newId, t) ==
  LET col == IF body.column # "" THEN body.column ELSE "backlog"
  IN [id |-> newId,
      projectId |-> IF "projectId" \in DOMAIN body THEN body.projectId ELSE 1,
      title |-> "task",
      status |-> col,
      column |-> col,
      assignee |-> "a",
      priority |-> "medium",
      tags |-> {},
      dependencies |-> body.dependencies,
      comments |-> <<>>,
      nextTask |-> body.nextTask,
      parentTaskId |-> Undefined,
      startedAt |-> IF col = "doing" THEN t ELSE Undefined,
      completedAt |-> Undefined,
      failedAt |-> Undefined,
      durationMs |-> Undefined,
      retryCount |-> 0,
      maxRetries |-> IF body.maxRetries # Undefined THEN body.maxRetries ELSE DefaultMaxRetries,
      requiresReview |-> body.requiresReview,
      updatedAt |-> t]



\* board_create_task (MCP): no retry, review or chaining field is set
McpNewTask(column, newId, t) ==
  LET col == IF column # "" THEN column ELSE "backlog"
  IN [id |-> newId,
      projectId |-> 1,
      title |-> "task",
      status |-> col,
      column |-> col,
      assignee |-> "",
      priority |-> "medium",
      tags |-> {},
      dependencies |-> <<>>,
      comments |-> <<>>,
      nextTask |-> NoNextTask,
      parentTaskId |-> Undefined,
      startedAt |-> Undefined,
      completedAt |-> Undefined,
      failedAt |-> Undefined,
      durationMs |-> Undefined,
      retryCount |-> Undefined,
      maxRetries |-> Undefined,
      requiresReview |-> FALSE,
      updatedAt |-> t]

(***************************************************************************)
(* State.                                                                  *)
(***************************************************************************)
VARIABLES
  tasks,    \* the content of tasks.json, in storage order
  nextId,   \* the next id generateId("task") returns
  clock,    \* what now() returns
  last,     \* the request served last and its response
  fails,    \* history: per task id, the moves to failed served so far
  agents,   \* the content of agents.json
  locked,   \* per collection, AsyncMutex.locked
  queue,    \* per collection, AsyncMutex.queue (the callers whose resolvers wait)
  pc,       \* per caller of withLock, where it stands
  op,       \* per caller, the write operation it issued
  data,     \* per caller, the collection it read inside its section
  called,   \* history: per collection, the callers in the order they called acquire
  granted,  \* history: per collection, the callers in the order they got the lock
  ledger,   \* the lines of audit.jsonl, oldest first
  disk,     \* tasks.json and tasks.json.tmp as the file system holds them
  writer,   \* the caller inside writeJSON: where it stands and what it writes
  reader,   \* a lock-free readJSON: where it stands and what it returned
  versions, \* history: the complete contents tasks.json has held, oldest first
  files,    \* per collection, its file in the data directory
  backups,  \* the files of the backups directory
  projects, \* the content of projects.json, in storage order
  retries   \* history: the id of the task of each move that returned retried = true

lockVars == <<agents, locked, queue, pc, op, data, called, granted>>
dirVars == <<files, backups, projects>>
fileVars == <<disk, writer, reader, versions, dirVars, retries>>
vars ==
  <<tasks, nextId, clock, last, fails, agents, locked, queue, pc, op, data, called, granted,
    ledger, disk, writer, reader, versions, files, backups, projects, retries>>

Collections == {"tasks.json", "agents.json", "projects.json"}

\* `last` before any request
NoRequest ==
  [op |-> "none", id |-> 0, column |-> "", body |-> <<>>, error |-> "",
   requiresReview |-> FALSE, retried |-> FALSE, chained |-> FALSE,
   query |-> [taskId |-> Undefined, agentId |-> "", limit |-> <<>>]]

Callers == 1..LockCallers

NoOp == [kind |-> "none", collection |-> "", id |-> 0]

\* the collections whose files and backups the model follows
BackedUp == {"tasks.json", "agents.json"}

\* a path with no file behind it
NoFile == [exists |-> FALSE, content |-> <<>>, whole |-> TRUE]

IdleWriter == [pc |-> "idle", result |-> <<>>]

IdleReader ==
  [pc |-> "idle", exists |-> FALSE, from |-> 0, to |-> 0, saw |-> "",
   returned |-> FALSE, result |-> <<>>]

EngineInit ==
  /\ tasks = <<>>
  /\ nextId = 1
  /\ clock = 0
  /\ last = NoRequest
  /\ fails = <<>>
  /\ agents = <<>>
  /\ locked = [c \in Collections |-> FALSE]
  /\ queue = [c \in Collections |-> <<>>]
  /\ pc = [p \in Callers |-> "idle"]
  /\ op = [p \in Callers |-> NoOp]
  /\ data = [p \in Callers |-> <<>>]
  /\ called = [c \in Collections |-> <<>>]
  /\ granted = [c \in Collections |-> <<>>]
  /\ ledger = <<>>
  /\ disk = [fp |-> NoFile, tmp |-> NoFile]
  /\ writer = IdleWriter
  /\ reader = IdleReader
  /\ versions = << <<>> >>
  /\ files = [c \in BackedUp |-> NoFile]
  /\ backups = {}
  /\ projects = <<>>
  /\ retries = <<>>

(***************************************************************************)
(* Requests, each served to completion before the next.                    *)
(***************************************************************************)
\* POST /tasks
CreateTaskReq(body) ==
  /\ tasks' = createTask(tasks, NewTask(body, nextId, clock))
  /\ nextId' = nextId + 1
  /\ last' = [NoRequest EXCEPT !.op = "create", !.id = nextId]
  /\ fails' = Append(fails, 0)
  /\ UNCHANGED <<clock, lockVars, fileVars>>

\* board_create_task
McpCreateTaskReq(column) ==
  /\ tasks' = createTask(tasks, McpNewTask(column, nextId, clock))
  /\ nextId' = nextId + 1
  /\ last' = [NoRequest EXCEPT !.op = "create", !.id = nextId]
  /\ fails' = Append(fails, 0)
  /\ UNCHANGED <<clock, lockVars, fileVars>>

\* PATCH /tasks/:id
PatchTaskReq(id, body) ==
  LET circular == "dependencies" \in DOMAIN body /\ hasCycle(tasks, id, body.dependencies)
  IN /\ tasks' = IF circular THEN tasks ELSE updateTask(tasks, id, body, clock)
     /\ last' = [NoRequest EXCEPT !.op = "patch", !.id = id, !.body = body,
                   !.error = IF circular THEN "Circular dependency detected"
                             ELSE IF ~Exists(tasks, id) THEN "Task not found" ELSE ""]
     /\ UNCHANGED <<nextId, clock, fails, lockVars, fileVars>>

\* POST /tasks/:id/move
MoveTaskReq(id, column) ==
  LET r == moveTask(tasks, id, column, nextId, clock)
  IN /\ tasks' = r.tasks
     /\ nextId' = IF r.chained THEN nextId + 1 ELSE nextId
     /\ last' = [NoRequest EXCEPT !.op = "move", !.id = id, !.column = column,
                   !.error = r.error, !.requiresReview = r.requiresReview,
                   !.retried = r.retried, !.chained = r.chained]
     /\ fails' = LET counted == IF r.error = "" /\ column = "failed"
                                THEN [fails EXCEPT ![id] = @ + 1] ELSE fails
                 IN IF r.chained THEN Append(counted, 0) ELSE counted
     /\ UNCHANGED <<clock, lockVars, fileVars>>

\* POST /tasks/:id/comments
AddCommentReq(id) ==
  /\ tasks' = addComment(tasks, id, Comment("a", "user", 0, 0, id), clock)
  /\ last' = [NoRequest EXCEPT !.op = "comment", !.id = id,
                !.error = IF Exists(tasks, id) THEN "" ELSE "Task not found"]
  /\ UNCHANGED <<nextId, clock, fails, lockVars, fileVars>>

\* a millisecond passes between two requests
Tick ==
  /\ clock' = clock + 1
  /\ UNCHANGED <<tasks, nextId, last, fails, lockVars, fileVars, ledger>>

\* the step stays within `limit` ids and `cap` comments per task
Bounded(limit, cap) ==
  /\ nextId' <= limit + 1
  /\ \A i \in 1..Len(tasks') : Len(tasks'[i].comments) <= cap

(***************************************************************************)
(* Request bodies the specifications draw from.                            *)
(***************************************************************************)
Template ==
  [present |-> TRUE, title |-> "next", assignee |-> "b", priority |-> "",
   hasTags |-> FALSE, tags |-> {}]

CreateBody(column, dependencies, requiresReview, maxRetries, nextTask) ==
  [column |-> column, dependencies |-> dependencies, requiresReview |-> requiresReview,
   maxRetries |-> maxRetries, nextTask |-> nextTask]

\* increasing dependency lists over the ids up to `limit` other than `self`
DepLists(limit, self) ==
  {<<>>} \cup {<<a>> : a \in (1..limit) \ {self}}
         \cup {p \in ((1..limit) \ {self}) \X ((1..limit) \ {self}) : p[1] < p[2]}

(***************************************************************************)
(* SpecGate: tasks with dependency lists, created and moved between the    *)
(* columns the dependency gate reads.                                      *)
(***************************************************************************)
GateColumns == {"doing", "done"}

GateCreate ==
  /\ \E deps \in DepLists(GateTasks, nextId) :
       CreateTaskReq(CreateBody("", deps, FALSE, Undefined, NoNextTask))
  /\ Bounded(GateTasks, GateComments)
  /\ UNCHANGED ledger

GateMove ==
  /\ \E id \in 1..GateTasks, column \in GateColumns : MoveTaskReq(id, column)
  /\ Bounded(GateTasks, GateComments)
  /\ UNCHANGED ledger

GateNext == GateCreate \/ GateMove

SpecGate == EngineInit /\ [][GateNext]_vars

\* the task a move request names, as stored before the request
Moved == getTask(tasks, last'.id)

\* some dependency of task T is stored with a column other than done
Pending(T) ==
  \E i \in 1..Len(T.dependencies) : \E j \in 1..Len(tasks) :
    tasks[j].id = T.dependencies[i] /\ tasks[j].column # "done"

ReviewCreate ==
  /\ \E column \in VALID_COLUMNS \cup {""}, requiresReview \in BOOLEAN :
       CreateTaskReq(CreateBody(column, <<>>, requiresReview, 0, NoNextTask))
  /\ Bounded(ReviewTasks, ReviewComments)
  /\ UNCHANGED ledger

ReviewMove ==
  /\ \E id \in 1..ReviewTasks, column \in VALID_COLUMNS : MoveTaskReq(id, column)
  /\ Bounded(ReviewTasks, ReviewComments)
  /\ UNCHANGED ledger

ReviewNext == ReviewCreate \/ ReviewMove

SpecReview == EngineInit /\ [][ReviewNext]_vars

\* C2: a task with requiresReview is refused done, with requiresReview in the
\* response and its column kept, unless it is in review; it is accepted into
\* review from any column and into done from review.
C2_QualityGate ==
  [][(/\ last'.op = "move"
      /\ Exists(tasks, last'.id)
      /\ Moved.requiresReview)
     => /\ (last'.column = "done" /\ Moved.column # "review")
             => /\ last'.error = "Quality gate"
                /\ last'.requiresReview
                /\ getTask(tasks', last'.id).column = Moved.column
        /\ (last'.column = "review")
             => /\ last'.error = ""
                /\ getTask(tasks', last'.id).column = "review"
        /\ (last'.column = "done" /\ Moved.column = "review")
             => /\ last'.error = ""
                /\ getTask(tasks', last'.id).column = "done"]_vars

\* a requiresReview task in failed was refused done
C2_Witness ==
  /\ last.op = "move"
  /\ last.column = "done"
  /\ last.requiresReview
  /\ getTask(tasks, last.id).requiresReview
  /\ getTask(tasks, last.id).column = "failed"

(***************************************************************************)
(* SpecRetry: tasks created with every maxRetries (REST) or with none      *)
(* (MCP), then moved to failed, doing and done; nothing else writes        *)
(* retryCount or maxRetries.                                               *)
(***************************************************************************)
RetryColumns == {"failed", "doing", "done"}

RetryCreate ==
  /\ \E maxRetries \in {Undefined} \cup 0..MaxRetriesArg :
       CreateTaskReq(CreateBody("", <<>>, FALSE, maxRetries, NoNextTask))
  /\ Bounded(RetryTasks, RetryComments)
  /\ UNCHANGED ledger

RetryMcpCreate ==
  /\ McpCreateTaskReq("")
  /\ Bounded(RetryTasks, RetryComments)
  /\ UNCHANGED ledger

RetryMove ==
  /\ \E id \in 1..RetryTasks, column \in RetryColumns : MoveTaskReq(id, column)
  /\ Bounded(RetryTasks, RetryComments)
  /\ UNCHANGED ledger

RetryNext == RetryCreate \/ RetryMcpCreate \/ RetryMove

SpecRetry == EngineInit /\ [][RetryNext]_vars

\* maxRetries and retryCount as the claim reads them
ReadMax(T) == IF T.maxRetries = Undefined THEN 2 ELSE T.maxRetries
ReadCount(T) == IF T.retryCount = Undefined THEN 0 ELSE T.retryCount

LastComment(T) == T.comments[Len(T.comments)]

\* C3: after k moves to failed of a task with maxRetries M, retryCount is
\* min(k, M); the k-th move answers retried and leaves the task in todo when
\* k <= M, and otherwise answers not retried, leaves it in failed with
\* retryCount M and appends the exhaustion comment.
C3_RetryBound ==
  /\ \A i \in 1..Len(tasks) :
       ReadCount(tasks[i]) =
         IF fails[tasks[i].id] <= ReadMax(tasks[i])
         THEN fails[tasks[i].id] ELSE ReadMax(tasks[i])
  /\ (last.op = "move" /\ last.column = "failed" /\ last.error = "")
       => LET T == getTask(tasks, last.id)
          IN IF fails[last.id] <= ReadMax(T)
             THEN /\ last.retried
                  /\ T.column = "todo"
                  /\ ReadCount(T) = fails[last.id]
             ELSE /\ ~last.retried
                  /\ T.column = "failed"
                  /\ ReadCount(T) = ReadMax(T)
                  /\ LastComment(T).author = "system"
                  /\ LastComment(T).kind = "Max retries exhausted"

\* a task with no stored maxRetries failed a third time and stayed in failed
C3_Witness ==
  /\ last.op = "move"
  /\ last.column = "failed"
  /\ last.error = ""
  /\ ~last.retried
  /\ fails[last.id] = 3
  /\ getTask(tasks, last.id).maxRetries = Undefined
  /\ getTask(tasks, last.id).retryCount = 2
  /\ getTask(tasks, last.id).column = "failed"

(***************************************************************************)
(* SpecRetryPatch: SpecRetry with comments and with PATCH requests that    *)
(* set maxRetries.                                                         *)
(***************************************************************************)
RetryPatch ==
  /\ \E id \in 1..RetryTasks, maxRetries \in 0..MaxRetriesArg :
       PatchTaskReq(id, [maxRetries |-> maxRetries])
  /\ Bounded(RetryTasks, RetryComments)
  /\ UNCHANGED ledger

RetryComment ==
  /\ \E id \in 1..RetryTasks : AddCommentReq(id)
  /\ Bounded(RetryTasks, RetryComments)
  /\ UNCHANGED ledger

RetryPatchNext == RetryCreate \/ RetryMcpCreate \/ RetryMove \/ RetryPatch \/ RetryComment

SpecRetryPatch == EngineInit /\ [][RetryPatchNext]_vars

\* C4: every stored task has retryCount <= maxRetries.
C4_RetryWithinMax ==
  \A i \in 1..Len(tasks) : ReadCount(tasks[i]) <= ReadMax(tasks[i])

(***************************************************************************)
(* SpecMirror: every request that writes a task: create, PATCH with        *)
(* column, status, both or neither, comment, and moves to failed (the      *)
(* auto-retry write) and to done (the chained task).                       *)
(***************************************************************************)
MirrorColumns == {"failed", "done"}

MirrorBodies ==
  {[column |-> "review"], [status |-> "doing"],
   [column |-> "review", status |-> "doing"], [priority |-> "medium"]}

MirrorCreate ==
  /\ nextId <= MirrorCreates
  /\ CreateTaskReq(CreateBody("", <<>>, FALSE, 1, Template))
  /\ Bounded(MirrorTasks, MirrorComments)
  /\ UNCHANGED ledger

MirrorPatch ==
  /\ \E id \in 1..MirrorTasks, body \in MirrorBodies : PatchTaskReq(id, body)
  /\ Bounded(MirrorTasks, MirrorComments)
  /\ UNCHANGED ledger

MirrorMove ==
  /\ \E id \in 1..MirrorTasks, column \in MirrorColumns : MoveTaskReq(id, column)
  /\ Bounded(MirrorTasks, MirrorComments)
  /\ UNCHANGED ledger

MirrorComment ==
  /\ \E id \in 1..MirrorTasks : AddCommentReq(id)
  /\ Bounded(MirrorTasks, MirrorComments)
  /\ UNCHANGED ledger

MirrorNext == MirrorCreate \/ MirrorPatch \/ MirrorMove \/ MirrorComment

SpecMirror == EngineInit /\ [][MirrorNext]_vars

PatchBodies ==
  {[column |-> c] : c \in VALID_COLUMNS}
    \cup {[status |-> c] : c \in VALID_COLUMNS}
    \cup {[column |-> c, status |-> d] : c \in VALID_COLUMNS, d \in VALID_COLUMNS}
    \cup {[column |-> c, priority |-> "high"] : c \in VALID_COLUMNS}
    \cup {[priority |-> "high"], <<>>}

PatchCreate ==
  /\ \E column \in VALID_COLUMNS \cup {""} :
       CreateTaskReq(CreateBody(column, <<>>, FALSE, Undefined, NoNextTask))
  /\ Bounded(PatchTasks, 0)
  /\ UNCHANGED ledger

PatchPatch ==
  /\ \E id \in 1..PatchTasks, body \in PatchBodies : PatchTaskReq(id, body)
  /\ Bounded(PatchTasks, 0)
  /\ UNCHANGED ledger

PatchNext == PatchCreate \/ PatchPatch

SpecPatch == EngineInit /\ [][PatchNext]_vars

\* the task a PATCH names, before and after the request
Patched == getTask(tasks, last'.id)
PatchedAfter == getTask(tasks', last'.id)

\* C6: a PATCH of a stored task that supplies column c ends with
\* column = status = c, whatever status it supplies; one that supplies only
\* status s ends with column = status = s; one that supplies neither leaves
\* column and status as they were.
C6_UpdateDerivation ==
  [][(last'.op = "patch" /\ Exists(tasks, last'.id))
     => /\ ("column" \in DOMAIN last'.body)
             => /\ PatchedAfter.column = last'.body.column
                /\ PatchedAfter.status = last'.body.column
        /\ ("column" \notin DOMAIN last'.body /\ "status" \in DOMAIN last'.body)
             => /\ PatchedAfter.column = last'.body.status
                /\ PatchedAfter.status = last'.body.status
        /\ ("column" \notin DOMAIN last'.body /\ "status" \notin DOMAIN last'.body)
             => /\ PatchedAfter.column = Patched.column
                /\ PatchedAfter.status = Patched.status]_vars

\* a PATCH supplied a column and a different status, and the column won
C6_Witness ==
  /\ last.op = "patch"
  /\ DOMAIN last.body = {"column", "status"}
  /\ last.body.column # last.body.status
  /\ Exists(tasks, last.id)
  /\ getTask(tasks, last.id).column = last.body.column

(***************************************************************************)
(* AsyncMutex and withLock (store.ts).  A caller runs acquire up to the    *)
(* await at once; what follows the await runs later, when the promise has  *)
(* been resolved: the read, then the mutation with the write, then the     *)
(* release of the finally block.                                           *)
(***************************************************************************)
FileOf(c) ==
  CASE c = "tasks.json" -> tasks [] c = "agents.json" -> agents [] c = "projects.json" -> projects

\* mutant: acquire does not look at `locked`
LockIsFreeAlways(c) == TRUE

\* `if (!this.locked)`
LockIsFree(c) == ~locked[c]

\* mutant: the waiter pushed last is taken
NextIndexLast(q) == Len(q)

\* queue.shift() takes the front of the queue
NextIndex(q) == 1

\* mutant: release clears `locked` also when it hands the lock to a waiter
LockedAfterHandOverCleared(c) == FALSE

\* `if (next) next()` leaves `locked` as it is
LockedAfterHandOver(c) == locked[c]

\* mutant: release is skipped when the section throws
ReleasesOnThrowNever == FALSE

\* `finally { release(); }`
ReleasesOnThrow == TRUE

RemoveAt(q, i) == SubSeq(q, 1, i - 1) \o SubSeq(q, i + 1, Len(q))

\* the function the operation hands to withLock, applied to the collection read
ApplyOp(o, coll) ==
  CASE o.kind = "create" -> createTask(coll, McpNewTask("", o.id, clock))
    [] o.kind = "update" -> updateTask(coll, o.id, [column |-> "doing"], clock)
    [] o.kind = "delete" -> deleteTask(coll, o.id)
    [] o.kind = "comment" -> addComment(coll, o.id, Comment("a", "user", 0, 0, o.by), clock)
    [] o.kind = "register" ->
         registerAgent(coll, [id |-> o.id, name |-> o.by, role |-> "", status |-> "online"])

\* the write operations a caller may issue
LockOps(p) ==
  {[kind |-> k, collection |-> "tasks.json", id |-> 1, by |-> p] :
     k \in {"update", "delete", "comment"}}
    \cup {[kind |-> "create", collection |-> "tasks.json", id |-> nextId, by |-> p],
          [kind |-> "register", collection |-> "agents.json", id |-> 1, by |-> p]}

\* release(), run by caller p, which ends in state `end`
Release(p, c, end) ==
  IF queue[c] # <<>>
  THEN LET i == NextIndex(queue[c])
       IN /\ queue' = [queue EXCEPT ![c] = RemoveAt(@, i)]
          /\ pc' = [pc EXCEPT ![p] = end, ![queue[c][i]] = "granted"]
          /\ granted' = [granted EXCEPT ![c] = Append(@, queue[c][i])]
          /\ locked' = [locked EXCEPT ![c] = LockedAfterHandOver(c)]
  ELSE /\ locked' = [locked EXCEPT ![c] = FALSE]
       /\ pc' = [pc EXCEPT ![p] = end]
       /\ UNCHANGED <<queue, granted>>

\* a caller issues operation o: withLock up to `await getMutex(name).acquire()`
Call(p, o) ==
  /\ pc[p] = "idle"
  /\ op' = [op EXCEPT ![p] = o]
  /\ nextId' = IF o.kind = "create" THEN nextId + 1 ELSE nextId
  /\ called' = [called EXCEPT ![o.collection] = Append(@, p)]
  /\ IF LockIsFree(o.collection)
     THEN /\ locked' = [locked EXCEPT ![o.collection] = TRUE]
          /\ pc' = [pc EXCEPT ![p] = "granted"]
          /\ granted' = [granted EXCEPT ![o.collection] = Append(@, p)]
          /\ UNCHANGED queue
     ELSE /\ queue' = [queue EXCEPT ![o.collection] = Append(@, p)]
          /\ pc' = [pc EXCEPT ![p] = "queued"]
          /\ UNCHANGED <<locked, granted>>
  /\ UNCHANGED <<tasks, agents, clock, last, fails, data>>
  /\ UNCHANGED <<ledger, fileVars>>

\* const data = readJSON(name, [])
Read(p) ==
  /\ pc[p] = "granted"
  /\ data' = [data EXCEPT ![p] = FileOf(op[p].collection)]
  /\ pc' = [pc EXCEPT ![p] = "section"]
  /\ UNCHANGED <<tasks, agents, nextId, clock, last, fails, locked, queue, op, called, granted>>
  /\ UNCHANGED <<ledger, fileVars>>

\* const result = fn(data); writeJSON(name, result); then the finally block
Write(p) ==
  /\ pc[p] = "section"
  /\ IF op[p].collection = "tasks.json"
     THEN tasks' = ApplyOp(op[p], data[p]) /\ UNCHANGED agents
     ELSE agents' = ApplyOp(op[p], data[p]) /\ UNCHANGED tasks
  /\ data' = [data EXCEPT ![p] = <<>>]
  /\ Release(p, op[p].collection, "done")
  /\ UNCHANGED <<nextId, clock, last, fails, op, called>>
  /\ UNCHANGED <<ledger, fileVars>>

\* the read, the mutation, the backup or the write throws; the finally block runs
Throw(p) ==
  /\ pc[p] \in {"granted", "section"}
  /\ data' = [data EXCEPT ![p] = <<>>]
  /\ IF ReleasesOnThrow
     THEN Release(p, op[p].collection, "thrown")
     ELSE /\ pc' = [pc EXCEPT ![p] = "thrown"]
          /\ UNCHANGED <<locked, queue, granted>>
  /\ UNCHANGED <<tasks, agents, nextId, clock, last, fails, op, called>>
  /\ UNCHANGED <<ledger, fileVars>>

LockCall == \E p \in Callers : \E o \in LockOps(p) : Call(p, o)

\* what the event loop runs for caller p once its promise is resolved
Resume(p) == Read(p) \/ Write(p) \/ Throw(p)

LockResume == \E p \in Callers : Resume(p)

LockNext == LockCall \/ LockResume

SpecLock == EngineInit /\ [][LockNext]_vars

SpecLockFair == EngineInit /\ [][LockNext]_vars /\ \A p \in Callers : WF_vars(Resume(p))

(***************************************************************************)
(* Properties of the per-collection lock.                                  *)
(***************************************************************************)
Holders(c) == {p \in Callers : op[p].collection = c /\ pc[p] \in {"granted", "section"}}

RECURSIVE SerialFrom(_, _)
\* the operations of the callers in `order` that completed, applied one after another
SerialFrom(order, coll) ==
  IF order = <<>> THEN coll
  ELSE SerialFrom(Tail(order),
                  IF pc[Head(order)] = "done" THEN ApplyOp(op[Head(order)], coll) ELSE coll)

Serial(c) == SerialFrom(granted[c], <<>>)

IsPrefix(s, t) == Len(s) <= Len(t) /\ \A i \in 1..Len(s) : s[i] = t[i]

\* C7: concurrent write operations on one collection are serialised: the
\* collection always holds the result of applying the completed operations
\* one after another, each to the result of the one before, so no update is
\* lost and every concurrent create leaves its entity in the collection.
C7_Serialised == \A c \in Collections : FileOf(c) = Serial(c)

\* three callers contend for tasks.json: one has written, one is between its
\* read and its write, one waits
C7_Witness ==
  \E p1, p2, p3 \in Callers :
    /\ pc[p1] = "done" /\ pc[p2] = "section" /\ pc[p3] = "queued"
    /\ \A p \in {p1, p2, p3} : op[p].collection = "tasks.json"
    /\ op[p1].kind = "create" /\ op[p2].kind = "comment" /\ op[p3].kind = "create"
    /\ Len(tasks) = 1

\* C8: at most one caller holds the lock of a collection at any time, and
\* the lock is marked held while a caller holds it, also while it is handed
\* to a waiter and a further caller arrives.
C8_MutualExclusion ==
  \A c \in Collections : Cardinality(Holders(c)) <= 1 /\ (Holders(c) # {} => locked[c])

\* the lock has passed from a finished caller to the next one, which has not
\* run yet, and a third caller has arrived and waits
C8_Witness ==
  \E p1, p2, p3 \in Callers :
    /\ granted["tasks.json"] = <<p1, p2>>
    /\ pc[p1] = "done" /\ pc[p2] = "granted"
    /\ queue["tasks.json"] = <<p3>>

\* C9: the lock of a collection is granted in the order in which the callers
\* asked for it.
C9_FifoOrder == \A c \in Collections : IsPrefix(granted[c], called[c])

\* three callers asked for tasks.json, two of them had to wait, all were served
C9_Witness ==
  /\ Len(granted["tasks.json"]) = LockCallers
  /\ \A p \in Callers : pc[p] \in {"done", "thrown"} /\ op[p].collection = "tasks.json"
  /\ Len(tasks) = 2

\* C10: a caller that waits for a lock gets it, also when the callers before
\* it throw inside the locked section.
C10_WaiterGranted == \A p \in Callers : (pc[p] = "queued") ~> (pc[p] = "granted")

\* the holder threw and the lock went to the caller that waited behind it
C10_Witness ==
  \E p1, p2, p3 \in Callers :
    /\ granted["tasks.json"] = <<p1, p2>>
    /\ pc[p1] = "thrown" /\ pc[p2] = "section"
    /\ queue["tasks.json"] = <<p3>>

(***************************************************************************)
(* readJSON and writeJSON at the level of the file system calls.  The      *)
(* writer is the caller that holds the lock of tasks.json; the reader is a *)
(* lock-free get or list, taken between any two calls of the writer.       *)
(***************************************************************************)
\* mutant: the collection file itself is opened for writing
writeJSONTargetInPlace == "fp"

\* `const tmp = fp + ".tmp"; writeFileSync(tmp, ...)`
writeJSONTarget == "tmp"

\* JSON.parse(readFileSync(fp)) with the catch: the fallback for a file cut short
Parsed(file) == IF file.whole THEN file.content ELSE <<>>

\* a file holding all of `content`
WholeFile(content) == [exists |-> TRUE, content |-> content, whole |-> TRUE]

\* the history after tasks.json has come to hold all of `content`
Committed(content) ==
  IF versions[Len(versions)] = content THEN versions ELSE Append(versions, content)

\* the steps of readJSON and writeJSON touch the files alone
FileOnly == UNCHANGED <<tasks, nextId, clock, last, fails, lockVars, ledger, dirVars, retries>>

\* withLock: readJSON and the mutation, which adds one entity
WriteBegin ==
  /\ FileOnly
  /\ writer.pc = "idle"
  /\ Len(versions) <= FileWrites
  /\ IF disk.fp.exists
     THEN /\ writer' = [pc |-> "backup", result |-> Append(Parsed(disk.fp), Len(versions))]
          /\ UNCHANGED disk
     ELSE /\ writer' = [pc |-> "backup", result |-> <<Len(versions)>>]
          /\ disk' = [disk EXCEPT !.fp = WholeFile(<<>>)]
  /\ UNCHANGED <<reader, versions>>

\* backupBeforeWrite: tasks.json is copied, not touched
Backup ==
  /\ FileOnly
  /\ writer.pc = "backup"
  /\ writer' = [writer EXCEPT !.pc = "write"]
  /\ UNCHANGED <<disk, reader, versions>>

\* writeFileSync opens and truncates its target, and has written part of the data
WriteOpen ==
  /\ FileOnly
  /\ writer.pc = "write"
  /\ disk' = [disk EXCEPT ![writeJSONTarget] =
                [exists |-> TRUE, content |-> writer.result, whole |-> FALSE]]
  /\ writer' = [writer EXCEPT !.pc = "writing"]
  /\ UNCHANGED <<reader, versions>>

\* writeFileSync has written all of the data
WriteClose ==
  /\ FileOnly
  /\ writer.pc = "writing"
  /\ disk' = [disk EXCEPT ![writeJSONTarget].whole = TRUE]
  /\ writer' = [writer EXCEPT !.pc = "written"]
  /\ versions' = IF writeJSONTarget = "fp" THEN Committed(writer.result) ELSE versions
  /\ UNCHANGED reader

\* renameSync(tmp, fp)
Rename ==
  /\ FileOnly
  /\ writer.pc = "written"
  /\ IF disk.tmp.exists
     THEN /\ disk' = [fp |-> disk.tmp, tmp |-> NoFile]
          /\ versions' = Committed(disk.tmp.content)
     ELSE UNCHANGED <<disk, versions>>
  /\ writer' = IdleWriter
  /\ UNCHANGED reader

\* readJSON, lock-free: existsSync(fp)
ReadExists ==
  /\ FileOnly
  /\ reader.pc = "idle"
  /\ reader' = [IdleReader EXCEPT !.pc = "checked", !.exists = disk.fp.exists,
                                  !.from = Len(versions)]
  /\ UNCHANGED <<disk, writer, versions>>

\* readJSON, lock-free: the fallback written for a missing file, or the read
ReadFile ==
  /\ FileOnly
  /\ reader.pc = "checked"
  /\ IF reader.exists
     THEN /\ reader' = [reader EXCEPT !.pc = "idle", !.returned = TRUE,
                          !.result = Parsed(disk.fp), !.to = Len(versions),
                          !.saw = writer.pc]
          /\ UNCHANGED <<disk, versions>>
     ELSE /\ disk' = [disk EXCEPT !.fp = WholeFile(<<>>)]
          /\ versions' = Committed(<<>>)
          /\ reader' = [reader EXCEPT !.pc = "idle", !.returned = TRUE,
                          !.result = <<>>, !.to = Len(Committed(<<>>)),
                          !.saw = writer.pc]
  /\ UNCHANGED writer

FileNext == WriteBegin \/ Backup \/ WriteOpen \/ WriteClose \/ Rename \/ ReadExists \/ ReadFile

SpecFile == EngineInit /\ [][FileNext]_vars

\* C11: what a lock-free read returns is a complete content the collection
\* file has held between the start of the read and its end: the collection
\* before a racing write or after it, never a part of it.
C11_AtomicReplacement ==
  reader.returned => \E i \in reader.from..reader.to : versions[i] = reader.result

\* a read taken while the writer was part-way through writing two entities
\* returned the one entity stored before
C11_Witness ==
  /\ reader.returned
  /\ reader.saw = "writing"
  /\ reader.result = <<1>>
  /\ writer.result = <<1, 2>>

(***************************************************************************)
(* SpecChain: tasks created with a template (bare or with priority and     *)
(* tags) or without one, with and without requiresReview, PATCHed to        *)
(* another priority and tag set, and moved to review and done; the chained *)
(* tasks are moved too.                                                    *)
(***************************************************************************)
TemplateFull ==
  [present |-> TRUE, title |-> "next", assignee |-> "b", priority |-> "high",
   hasTags |-> TRUE, tags |-> {"x"}]

ChainColumns == {"review", "done"}

ChainCreate ==
  /\ nextId <= ChainCreates
  /\ \E nextTask \in {NoNextTask, Template, TemplateFull}, requiresReview \in BOOLEAN :
       CreateTaskReq(CreateBody("", <<>>, requiresReview, 0, nextTask))
  /\ Bounded(ChainTasks, ChainComments)
  /\ UNCHANGED ledger

ChainPatch ==
  /\ \E id \in 1..ChainCreates : PatchTaskReq(id, [priority |-> "urgent", tags |-> {"p"}])
  /\ Bounded(ChainTasks, ChainComments)
  /\ UNCHANGED ledger

ChainMove ==
  /\ \E id \in 1..ChainTasks, column \in ChainColumns : MoveTaskReq(id, column)
  /\ Bounded(ChainTasks, ChainComments)
  /\ UNCHANGED ledger

ChainNext == ChainCreate \/ ChainPatch \/ ChainMove

SpecChain == EngineInit /\ [][ChainNext]_vars

Ids(ts) == {ts[i].id : i \in 1..Len(ts)}

\* the task stored last after the step
Spawned == tasks'[Len(tasks')]

\* C12: an accepted move to done of a task P that carries nextTask stores one
\* more task and answers with it: a new id, column = status = todo,
\* parentTaskId and projectId of P, title and assignee of the template,
\* priority and tags of the template when it gives them and of P otherwise,
\* no dependencies and one system comment that names P.  Any other move
\* stores no task.
C12_Chaining ==
  [][(last'.op = "move")
     => IF last'.error = "" /\ last'.column = "done" /\ Moved.nextTask.present
        THEN /\ last'.chained
             /\ Len(tasks') = Len(tasks) + 1
             /\ Ids(tasks') = Ids(tasks) \cup {Spawned.id}
             /\ Spawned.id \notin Ids(tasks)
             /\ Spawned.column = "todo"
             /\ Spawned.status = "todo"
             /\ Spawned.parentTaskId = Moved.id
             /\ Spawned.projectId = Moved.projectId
             /\ Spawned.title = Moved.nextTask.title
             /\ Spawned.assignee = Moved.nextTask.assignee
             /\ Spawned.priority = IF Moved.nextTask.priority # ""
                                   THEN Moved.nextTask.priority ELSE Moved.priority
             /\ Spawned.tags = IF Moved.nextTask.hasTags
                               THEN Moved.nextTask.tags ELSE Moved.tags
             /\ Spawned.dependencies = <<>>
             /\ Len(Spawned.comments) = 1
             /\ Spawned.comments[1].author = "system"
             /\ Spawned.comments[1].ref = Moved.id
        ELSE /\ ~last'.chained
             /\ Ids(tasks') = Ids(tasks)
             /\ Len(tasks') = Len(tasks)]_vars

\* a requiresReview task with a bare template was PATCHed and moved to
\* done from review: one chained task, with the priority and tags of its parent
C12_Witness ==
  /\ last.op = "move"
  /\ last.chained
  /\ Len(tasks) = 2
  /\ tasks[1].requiresReview
  /\ tasks[2].parentTaskId = 1
  /\ tasks[2].priority = "urgent"
  /\ tasks[2].tags = {"p"}
  /\ tasks[2].assignee = "b"

(***************************************************************************)
(* SpecMetrics: one task, created in backlog or doing, moved to todo,      *)
(* doing, done and failed, PATCHed into doing, while the clock advances.   *)
(* The metrics of a task are written by the requests that name it alone,   *)
(* so the specification follows a single task through time.                *)
(***************************************************************************)
MetricsColumns == {"todo", "doing", "done", "failed"}

\* the step leaves every task with at most MetricsComments comments
MetricsBounded == \A i \in 1..Len(tasks') : Len(tasks'[i].comments) <= MetricsComments

MetricsCreate ==
  /\ tasks = <<>>
  /\ \E column \in {"", "doing"} :
       CreateTaskReq(CreateBody(column, <<>>, FALSE, 1, NoNextTask))
  /\ UNCHANGED ledger

MetricsMove ==
  /\ \E i \in 1..Len(tasks), column \in MetricsColumns : MoveTaskReq(tasks[i].id, column)
  /\ MetricsBounded
  /\ UNCHANGED ledger

MetricsPatch ==
  /\ \E i \in 1..Len(tasks) : PatchTaskReq(tasks[i].id, [status |-> "doing"])
  /\ UNCHANGED ledger

MetricsTick == clock < MaxClock /\ Tick

MetricsNext == MetricsCreate \/ MetricsMove \/ MetricsPatch \/ MetricsTick

SpecMetrics == EngineInit /\ [][MetricsNext]_vars

\* C13: every stored task that has durationMs has startedAt and completedAt,
\* and durationMs = completedAt - startedAt >= 0.
C13_Duration ==
  \A i \in 1..Len(tasks) :
    tasks[i].durationMs # Undefined
      => /\ tasks[i].startedAt # Undefined
         /\ tasks[i].completedAt # Undefined
         /\ tasks[i].durationMs = tasks[i].completedAt - tasks[i].startedAt
         /\ tasks[i].durationMs >= 0

\* a task started at 1 and completed at 2 has failed and been retried, and
\* is completed again at 3
C13_Witness ==
  /\ last.op = "move"
  /\ last.column = "done"
  /\ \E i \in 1..Len(tasks) :
       /\ tasks[i].startedAt = 1
       /\ tasks[i].completedAt = 3
       /\ tasks[i].durationMs = 2
       /\ tasks[i].failedAt = Undefined
       /\ tasks[i].retryCount = 1

\* C14: a move sets startedAt to the time of the move when it is accepted,
\* goes to doing and the task has no startedAt; in every other case, and for
\* every other task, startedAt after the move is startedAt before it.
C14_StartedAtOnce ==
  [][(last'.op = "move")
     => /\ Len(tasks') = Len(tasks)
        /\ \A i \in 1..Len(tasks) :
             tasks'[i].startedAt =
               IF /\ tasks[i].id = last'.id
                  /\ last'.error = ""
                  /\ last'.column = "doing"
                  /\ tasks[i].startedAt = Undefined
               THEN clock
               ELSE tasks[i].startedAt]_vars

\* a task started at 1, completed and retried since, is moved to doing
\* again at 3 and keeps startedAt = 1
C14_Witness ==
  /\ last.op = "move"
  /\ last.column = "doing"
  /\ last.error = ""
  /\ clock = 3
  /\ getTask(tasks, last.id).startedAt = 1
  /\ getTask(tasks, last.id).completedAt = 2
  /\ getTask(tasks, last.id).retryCount = 1

(***************************************************************************)
(* SpecReject: tasks with and without requiresReview and a dependency on   *)
(* an earlier task, and moves that name stored and unknown tasks, with no  *)
(* column, an unknown column, and doing and done.                          *)
(***************************************************************************)
RejectColumns == {"", "archived", "doing", "done"}

RejectCreate ==
  /\ \E deps \in {<<>>} \cup {<<d>> : d \in 1..(nextId - 1)}, requiresReview \in BOOLEAN :
       CreateTaskReq(CreateBody("", deps, requiresReview, 0, NoNextTask))
  /\ Bounded(RejectTasks, RejectComments)
  /\ UNCHANGED ledger

RejectMove ==
  /\ \E id \in 1..RejectTasks, column \in RejectColumns : MoveTaskReq(id, column)
  /\ Bounded(RejectTasks, RejectComments)
  /\ UNCHANGED ledger

RejectNext == RejectCreate \/ RejectMove

SpecReject == EngineInit /\ [][RejectNext]_vars

MoveErrors ==
  {"column is required", "column must be one of", "Task not found",
   "Blocked by unresolved dependencies", "Quality gate"}

\* C15: a move that answers with an error leaves the tasks collection as it
\* was, and takes no id for a chained task; every move answers with no error
\* or with one of the five errors.
C15_RejectedMoveNoChange ==
  [][(last'.op = "move")
     => /\ last'.error \in MoveErrors \cup {""}
        /\ (last'.error # "") => (tasks' = tasks /\ nextId' = nextId /\ ~last'.chained)]_vars

\* a task that waits on a requiresReview task in doing was refused doing:
\* its column, metrics and comments are as they were
C15_Witness ==
  /\ last.op = "move"
  /\ last.column = "doing"
  /\ last.error = "Blocked by unresolved dependencies"
  /\ Len(tasks) = 2
  /\ tasks[1].column = "doing"
  /\ tasks[1].requiresReview
  /\ tasks[2].dependencies = <<1>>
  /\ tasks[2].column = "backlog"
  /\ tasks[2].startedAt = Undefined
  /\ tasks[2].comments = <<>>

(***************************************************************************)
(* SpecCycle: hasCycle applied to every task id and proposed list over     *)
(* every stored graph on CycleIds ids: each id is stored or not, each      *)
(* stored task has any duplicate-free increasing dependency list of up to  *)
(* two ids, itself included.                                               *)
(***************************************************************************)
DepSets(n) ==
  {<<>>} \cup {<<a>> : a \in 1..n} \cup {p \in (1..n) \X (1..n) : p[1] < p[2]}

\* per id, the stored dependency list, or <<0>> for an id that is not stored
Graphs(n) == [1..n -> DepSets(n) \cup {<<0>>}]

RECURSIVE StoreOf(_, _)
\* the tasks collection that holds graph g, in id order
StoreOf(g, n) ==
  IF n = 0 THEN <<>>
  ELSE IF g[n] = <<0>> THEN StoreOf(g, n - 1)
       ELSE Append(StoreOf(g, n - 1), [McpNewTask("", n, 0) EXCEPT !.dependencies = g[n]])

\* a store that holds any graph on n ids, and nothing under way
GraphInit(n) ==
  /\ tasks \in {StoreOf(g, n) : g \in Graphs(n)}
  /\ nextId = n + 1
  /\ clock = 0
  /\ last = NoRequest
  /\ fails = [i \in 1..n |-> 0]
  /\ agents = <<>>
  /\ locked = [c \in Collections |-> FALSE]
  /\ queue = [c \in Collections |-> <<>>]
  /\ pc = [p \in Callers |-> "idle"]
  /\ op = [p \in Callers |-> NoOp]
  /\ data = [p \in Callers |-> <<>>]
  /\ called = [c \in Collections |-> <<>>]
  /\ granted = [c \in Collections |-> <<>>]
  /\ ledger = <<>>
  /\ disk = [fp |-> NoFile, tmp |-> NoFile]
  /\ writer = IdleWriter
  /\ reader = IdleReader
  /\ versions = << <<>> >>
  /\ files = [c \in BackedUp |-> NoFile]
  /\ backups = {}
  /\ projects = <<>>
  /\ retries = <<>>

CycleInit == GraphInit(CycleIds)

\* hasCycle(taskId, dependencies) is called, once per store, and answers
CheckCycle ==
  /\ last = NoRequest
  /\ \E taskId \in 1..CycleIds, dependencies \in DepSets(CycleIds) :
       last' = [NoRequest EXCEPT
                  !.op = "hasCycle", !.id = taskId,
                  !.body = [dependencies |-> dependencies],
                  !.error = IF hasCycle(tasks, taskId, dependencies)
                            THEN "Circular dependency detected" ELSE ""]
  /\ UNCHANGED <<tasks, nextId, clock, fails, lockVars, fileVars, ledger>>

SpecCycle == CycleInit /\ [][CheckCycle]_vars

Range(seq) == {seq[i] : i \in 1..Len(seq)}

\* the ids the stored tasks among `ids` depend on
Successors(ts, ids) ==
  UNION {Range(ts[i].dependencies) : i \in {j \in 1..Len(ts) : ts[j].id \in ids}}

RECURSIVE Reachable(_, _, _)
\* the ids reached from `ids` in at most k steps along stored dependency lists
Reachable(ts, ids, k) ==
  IF k = 0 THEN ids ELSE Reachable(ts, ids \cup Successors(ts, ids), k - 1)

\* C16: hasCycle(A, D) answers true exactly when A is in D or is reached from
\* an element of D along the dependency lists of stored tasks; ids with no
\* stored task are leaves.
C16_CycleCheck ==
  (last.op = "hasCycle")
    => ((last.error = "Circular dependency detected")
          <=> (last.id \in Reachable(tasks, Range(last.body.dependencies), CycleIds)))

\* task 1 is found two steps behind the proposed [2], past the stored cycle
\* 2 -> 3 -> 2, in a store that does not hold task 1
C16_Witness ==
  /\ last.op = "hasCycle"
  /\ last.id = 1
  /\ last.body.dependencies = <<2>>
  /\ last.error = "Circular dependency detected"
  /\ ~Exists(tasks, 1)
  /\ getTask(tasks, 2).dependencies = <<3>>
  /\ getTask(tasks, 3).dependencies = <<1, 2>>

(***************************************************************************)
(* SpecDeps: tasks created with a dependency on nothing, on one or two     *)
(* stored tasks or on an id that names no task, and PATCH requests that    *)
(* replace the dependency list of a stored or unknown task by such a list, *)
(* the task itself included.  Ids come from randomBytes: a request cannot  *)
(* name the id of a task that is created later.                            *)
(***************************************************************************)
\* the lists a request can carry when the ids below nextId are taken
KnownDeps ==
  {<<>>} \cup {<<d>> : d \in {GhostId} \cup 1..(nextId - 1)}
         \cup {p \in (1..(nextId - 1)) \X (1..(nextId - 1)) : p[1] < p[2]}

DepsCreate ==
  /\ \E deps \in KnownDeps : CreateTaskReq(CreateBody("", deps, FALSE, 0, NoNextTask))
  /\ Bounded(DepsTasks, 0)
  /\ UNCHANGED ledger

DepsPatch ==
  /\ \E id \in 1..DepsTasks, deps \in KnownDeps : PatchTaskReq(id, [dependencies |-> deps])
  /\ UNCHANGED ledger

DepsNext == DepsCreate \/ DepsPatch

SpecDeps == EngineInit /\ [][DepsNext]_vars

\* no stored task is reached from its own dependency list
Acyclic(ts) ==
  \A i \in 1..Len(ts) :
    ts[i].id \notin Reachable(ts, Range(ts[i].dependencies), Len(ts))

\* the answer to a PATCH of the dependency list of a stored task
DepsEdit ==
  (last'.op = "patch" /\ Exists(tasks, last'.id))
    => IF last'.id \in Reachable(tasks, Range(last'.body.dependencies), Len(tasks))
       THEN /\ last'.error = "Circular dependency detected"
            /\ tasks' = tasks
       ELSE /\ last'.error = ""
            /\ PatchedAfter.dependencies = last'.body.dependencies

\* C17: the stored dependency graph has no cycle after any sequence of
\* creations and PATCH edits; an edit that would close a cycle is answered
\* with 'Circular dependency detected' and changes nothing, any other edit
\* is applied.
C17_AcyclicPreserved == []Acyclic(tasks) /\ [][DepsEdit]_vars

\* with 1 -> 2 -> 3 stored, the edit of task 3 to depend on task 1 was refused
C17_Witness ==
  /\ last.op = "patch"
  /\ last.id = 3
  /\ last.body.dependencies = <<1>>
  /\ last.error = "Circular dependency detected"
  /\ getTask(tasks, 1).dependencies = <<2>>
  /\ getTask(tasks, 2).dependencies = <<3>>
  /\ getTask(tasks, 3).dependencies = <<>>

(***************************************************************************)
(* Audit ledger (audit.ts) and the transport handlers that write it: each  *)
(* handler is the store or engine call followed by its appendAuditLog.     *)
(* The specifications above leave the ledger out, since no handler reads   *)
(* it back; the ones below record it.                                      *)
(***************************************************************************)
AuditEntry(agentId, action, taskId, from, to) ==
  [agentId |-> agentId, action |-> action, taskId |-> taskId, from |-> from, to |-> to]

\* mutant: the file is written, not appended to
appendAuditLogOverwrite(entries, entry) == <<entry>>

\* appendFileSync(auditFilePath(), line)
appendAuditLog(entries, entry) == Append(entries, entry)

Reverse(seq) == [i \in 1..Len(seq) |-> seq[Len(seq) + 1 - i]]

\* a JavaScript number: an integer or NaN
Num(v) == [nan |-> FALSE, value |-> v]
NaN == [nan |-> TRUE, value |-> 0]

DigitOf ==
  ("0" :> 0) @@ ("1" :> 1) @@ ("2" :> 2) @@ ("3" :> 3) @@ ("4" :> 4) @@
  ("5" :> 5) @@ ("6" :> 6) @@ ("7" :> 7) @@ ("8" :> 8) @@ ("9" :> 9)

\* the value of the digits of s from position i up to the first non-digit
RECURSIVE ParseDigits(_, _, _)
ParseDigits(s, i, acc) ==
  IF i > Len(s) \/ s[i] \notin DOMAIN DigitOf THEN acc
  ELSE ParseDigits(s, i + 1, acc * 10 + DigitOf[s[i]])

\* parseInt(s, 10) of a string given as its characters: an optional sign,
\* then the leading digits; NaN when there is none
parseInt(s) ==
  LET neg == Len(s) > 0 /\ s[1] = "-"
      start == IF neg THEN 2 ELSE 1
  IN IF start > Len(s) \/ s[start] \notin DOMAIN DigitOf THEN NaN
     ELSE Num((IF neg THEN -1 ELSE 1) * ParseDigits(s, start, 0))

\* mutant: the entries are not reversed
readAuditLogOldestFirst(entries, taskId, agentId, limit) ==
  LET byTask == IF taskId # Undefined
                THEN SelectSeq(entries, LAMBDA e : e.taskId = taskId) ELSE entries
      byAgent == IF agentId # ""
                 THEN SelectSeq(byTask, LAMBDA e : e.agentId = agentId) ELSE byTask
  IN IF ~limit.nan /\ limit.value > 0 /\ Len(byAgent) > limit.value
     THEN SubSeq(byAgent, 1, limit.value) ELSE byAgent

\* the entries of one task and of one agent (of all, for Undefined and ""),
\* newest first, cut at a limit that is a number above zero
readAuditLog(entries, taskId, agentId, limit) ==
  LET byTask == IF taskId # Undefined
                THEN SelectSeq(entries, LAMBDA e : e.taskId = taskId) ELSE entries
      byAgent == IF agentId # ""
                 THEN SelectSeq(byTask, LAMBDA e : e.agentId = agentId) ELSE byTask
      newest == Reverse(byAgent)
  IN IF ~limit.nan /\ limit.value > 0 /\ Len(newest) > limit.value
     THEN SubSeq(newest, 1, limit.value) ELSE newest

\* mutant: `from` is read from the task the move returns
MoveAuditEntryAfter(agentId, taskBefore, moved, column) ==
  AuditEntry(agentId, "task.move", moved.id, moved.column, column)

\* the task.move entry: `from` is the column read before moveTask was called
MoveAuditEntry(agentId, taskBefore, moved, column) ==
  AuditEntry(agentId, "task.move", moved.id, taskBefore.column, column)

\* POST /tasks
RestCreateTask(body) ==
  /\ CreateTaskReq(body)
  /\ ledger' = appendAuditLog(ledger, AuditEntry("rest", "task.create", nextId, "", ""))

\* board_create_task
McpCreateTask(column) ==
  /\ McpCreateTaskReq(column)
  /\ ledger' = appendAuditLog(ledger, AuditEntry("mcp", "task.create", nextId, "", ""))

\* PATCH /tasks/:id
RestPatchTask(id, body) ==
  /\ PatchTaskReq(id, body)
  /\ ledger' = IF ("dependencies" \in DOMAIN body /\ hasCycle(tasks, id, body.dependencies))
                  \/ ~Exists(tasks, id)
               THEN ledger
               ELSE appendAuditLog(ledger, AuditEntry("rest", "task.update", id, "", ""))

\* POST /tasks/:id/move and board_move_task
MoveTask(agentId, id, column) ==
  /\ MoveTaskReq(id, column)
  /\ LET r == moveTask(tasks, id, column, nextId, clock)
     IN ledger' = IF r.error # "" THEN ledger
                  ELSE appendAuditLog(ledger,
                         MoveAuditEntry(agentId, getTask(tasks, id), r.task, column))

\* POST /tasks/:id/comments
RestAddComment(id) ==
  /\ AddCommentReq(id)
  /\ ledger' = IF Exists(tasks, id)
               THEN appendAuditLog(ledger, AuditEntry("rest", "comment.add", id, "", ""))
               ELSE ledger

\* the task POST /projects/:id/from-template builds from one definition
TemplateTask(def, newId, t) ==
  [NewTask(CreateBody(def.column, <<>>, def.requiresReview, def.maxRetries, def.nextTask),
           newId, t)
   EXCEPT !.startedAt = Undefined]

\* POST /projects/:id/from-template with one inline definition that has no ref
FromTemplate(def) ==
  /\ tasks' = createTask(tasks, TemplateTask(def, nextId, clock))
  /\ nextId' = nextId + 1
  /\ last' = [NoRequest EXCEPT !.op = "from-template", !.id = nextId]
  /\ fails' = Append(fails, 0)
  /\ ledger' = appendAuditLog(ledger,
                 AuditEntry("rest", "project.from-template", Undefined, "", ""))
  /\ UNCHANGED <<clock, lockVars, fileVars>>

\* GET /audit?taskId=...&agentId=...&limit=...: a missing or empty limit is
\* 100, any other is what parseInt makes of it
GetAuditQuery(taskId, agentId, limit) ==
  /\ last' = [NoRequest EXCEPT
                !.op = "audit", !.id = taskId,
                !.query = [taskId |-> taskId, agentId |-> agentId, limit |-> limit],
                !.body = readAuditLog(ledger, taskId, agentId,
                           IF limit # <<>> THEN parseInt(limit)
                           ELSE Num(DefaultAuditLimit))]
  /\ UNCHANGED <<tasks, nextId, clock, fails, lockVars, fileVars, ledger>>

\* GET /audit?taskId=...
GetAudit(taskId) == GetAuditQuery(taskId, "", <<>>)

(***************************************************************************)
(* SpecAudit: every handler that writes a task, through REST and MCP, and  *)
(* the ledger query.                                                       *)
(***************************************************************************)
\* the step stays within the ids, comments and ledger entries of SpecAudit
AuditBounded == Bounded(AuditTasks, AuditComments) /\ Len(ledger') <= AuditEntries

AuditColumns == {"done", "failed"}

AuditCreate ==
  /\ \E nextTask \in {NoNextTask, Template} :
       RestCreateTask(CreateBody("", <<>>, FALSE, 1, nextTask))
  /\ AuditBounded

AuditMcpCreate == McpCreateTask("") /\ AuditBounded

AuditTemplate ==
  /\ FromTemplate([column |-> "", requiresReview |-> TRUE, maxRetries |-> Undefined,
                   nextTask |-> NoNextTask])
  /\ AuditBounded

AuditPatch ==
  /\ \E id \in 1..AuditTasks : RestPatchTask(id, [column |-> "review"])
  /\ AuditBounded

AuditMove ==
  /\ \E agentId \in {"rest", "mcp"}, id \in 1..AuditTasks, column \in AuditColumns :
       MoveTask(agentId, id, column)
  /\ AuditBounded

AuditComment ==
  /\ \E id \in 1..AuditTasks : RestAddComment(id)
  /\ AuditBounded

AuditQuery == \E taskId \in {Undefined} \cup 1..AuditTasks : GetAudit(taskId)

AuditNext ==
  \/ AuditCreate \/ AuditMcpCreate \/ AuditTemplate \/ AuditPatch
  \/ AuditMove \/ AuditComment \/ AuditQuery

SpecAudit == EngineInit /\ [][AuditNext]_vars

\* C18: every step leaves the ledger as it was or with entries added at its
\* end: the ledger before is a prefix of the ledger after.
C18_LedgerAppendOnly == [][IsPrefix(ledger, ledger')]_vars

\* the ledger holds a create, an update and a move, and a query has read it
C18_Witness ==
  /\ last.op = "audit"
  /\ Len(ledger) = 3
  /\ ledger[1].action = "task.create"
  /\ ledger[2].action = "task.update"
  /\ ledger[3].action = "task.move"
  /\ Len(last.body) = 3
  /\ last.body[1] = ledger[3]

\* C19: an accepted move adds one entry to the ledger: task.move, with the
\* id of the moved task, the column it had before the move as `from` and the
\* requested column as `to`; a refused move adds none.
C19_MoveAudited ==
  [][(last'.op = "move")
     => IF last'.error = ""
        THEN /\ Len(ledger') = Len(ledger) + 1
             /\ ledger'[Len(ledger')].action = "task.move"
             /\ ledger'[Len(ledger')].taskId = last'.id
             /\ ledger'[Len(ledger')].from = Moved.column
             /\ ledger'[Len(ledger')].to = last'.column
        ELSE ledger' = ledger]_vars

\* a task PATCHed into review was moved to failed through MCP and retried:
\* the entry reads review -> failed
C19_Witness ==
  /\ last.op = "move"
  /\ last.retried
  /\ ledger[Len(ledger)] = AuditEntry("mcp", "task.move", last.id, "review", "failed")
  /\ getTask(tasks, last.id).column = "todo"

\* C20: every stored task has a ledger entry that carries its id, and a task
\* whose newest entry is a task.move is in the column that entry names.
C20_EveryMutationLogged ==
  \A i \in 1..Len(tasks) :
    LET entries == readAuditLog(ledger, tasks[i].id, "", Num(0))
    IN /\ entries # <<>>
       /\ (entries[1].action = "task.move") => (tasks[i].column = entries[1].to)

(***************************************************************************)
(* SpecQuery: the ledger grows by appended entries of two agents and two   *)
(* tasks, or is the ledger of one entry more than the default limit, and   *)
(* GET /audit answers queries with and without filters and limits.         *)
(***************************************************************************)
QueryAgents == {"rest", "mcp"}

\* the task ids of the entries and of the filters
QueryTaskIds == {1, 2}

\* a ledger of one entry more than the default limit
LongLedger ==
  [i \in 1..(DefaultAuditLimit + 1) |->
     AuditEntry(IF i % 2 = 0 THEN "rest" ELSE "mcp", "task.update", 1 + (i % 3), "", "")]

\* the limit parameter as the query string carries it
QueryLimits == {<<>>, <<"0">>, <<"1">>, <<"2">>, <<"-", "1">>, <<"x">>}

QueryInit ==
  /\ tasks = <<>>
  /\ nextId = 1
  /\ clock = 0
  /\ last = NoRequest
  /\ fails = <<>>
  /\ agents = <<>>
  /\ locked = [c \in Collections |-> FALSE]
  /\ queue = [c \in Collections |-> <<>>]
  /\ pc = [p \in Callers |-> "idle"]
  /\ op = [p \in Callers |-> NoOp]
  /\ data = [p \in Callers |-> <<>>]
  /\ called = [c \in Collections |-> <<>>]
  /\ granted = [c \in Collections |-> <<>>]
  /\ ledger \in {<<>>, LongLedger}
  /\ disk = [fp |-> NoFile, tmp |-> NoFile]
  /\ writer = IdleWriter
  /\ reader = IdleReader
  /\ versions = << <<>> >>
  /\ files = [c \in BackedUp |-> NoFile]
  /\ backups = {}
  /\ projects = <<>>
  /\ retries = <<>>

\* some handler appends its entry
QueryAppend ==
  /\ Len(ledger) < QueryEntries
  /\ \E agentId \in QueryAgents, taskId \in QueryTaskIds :
       ledger' = appendAuditLog(ledger, AuditEntry(agentId, "task.update", taskId, "", ""))
  /\ last' = [NoRequest EXCEPT !.op = "append"]
  /\ UNCHANGED <<tasks, nextId, clock, fails, lockVars, fileVars>>

QueryGet ==
  \E taskId \in {Undefined} \cup QueryTaskIds, agentId \in {""} \cup QueryAgents,
     limit \in QueryLimits :
    GetAuditQuery(taskId, agentId, limit)

QueryNext == QueryAppend \/ QueryGet

SpecQuery == QueryInit /\ [][QueryNext]_vars

\* the entry passes the filters of the query
Matches(e, q) ==
  /\ (q.taskId # Undefined) => (e.taskId = q.taskId)
  /\ (q.agentId # "") => (e.agentId = q.agentId)

\* the positions of the entries that pass the filters
MatchingAt(entries, q) == {i \in 1..Len(entries) : Matches(entries[i], q)}

\* the entries that pass the filters, from the last appended back, no more
\* than `room` of them: the k-th is the one with k - 1 matching entries
\* appended after it
NewestMatching(entries, q, room) ==
  LET at == MatchingAt(entries, q)
      n == IF Cardinality(at) < room THEN Cardinality(at) ELSE room
  IN [k \in 1..n |->
        entries[CHOOSE i \in at : Cardinality({j \in at : j > i}) = k - 1]]

\* the limit of the query is an integer, or there is none
NumericLimit(q) == q.limit = <<>> \/ ~parseInt(q.limit).nan

LimitOf(q) == IF q.limit = <<>> THEN DefaultAuditLimit ELSE parseInt(q.limit).value

\* C21 as stated: a query with a numeric or absent limit answers the
\* matching entries, newest first, cut to the first `limit` of them, where
\* no limit means 100.
C21_QueryAsStated ==
  (last.op = "audit" /\ NumericLimit(last.query) /\ LimitOf(last.query) >= 0)
  => last.body = NewestMatching(ledger, last.query, LimitOf(last.query))

\* C21: a query answers the matching entries, newest first; they are cut to
\* the first `limit` when the limit is an integer above zero (100 when the
\* request names none), and are all returned when the limit is zero,
\* negative or not a number.
C21_LedgerQuery ==
  (last.op = "audit")
  => last.body = NewestMatching(ledger, last.query,
                   IF NumericLimit(last.query) /\ LimitOf(last.query) > 0
                   THEN LimitOf(last.query) ELSE Len(ledger))

\* of three entries, two are of task 1 and one of these by "mcp"; the query
\* for task 1 with limit 1 answers the newer one alone
C21_Witness ==
  /\ last.op = "audit"
  /\ last.query = [taskId |-> 1, agentId |-> "", limit |-> <<"1">>]
  /\ Len(ledger) = 3
  /\ ledger[1].taskId = 1 /\ ledger[1].agentId = "mcp"
  /\ ledger[2].taskId = 1 /\ ledger[2].agentId = "rest"
  /\ ledger[3].taskId = 2
  /\ last.body = <<ledger[2]>>

\* the ledger of 101 entries, asked without a limit, answers its newest 100
C21_DefaultLimit ==
  /\ last.op = "audit"
  /\ last.query = [taskId |-> Undefined, agentId |-> "", limit |-> <<>>]
  /\ ledger = LongLedger
  /\ Len(last.body) = DefaultAuditLimit
  /\ last.body[1] = ledger[DefaultAuditLimit + 1]

(***************************************************************************)
(* Backups (store.ts): withLock reads the collection, applies the          *)
(* mutation and calls writeJSON, which copies the file into backups/ under *)
(* a name made of the collection and the millisecond, prunes the backups   *)
(* of that collection and replaces the file.  All of it is synchronous:    *)
(* one step.  The items of a collection are numbered as they are added.    *)
(***************************************************************************)
\* name.replace(/\.json$/, "")
BaseName(name) == IF name = "tasks.json" THEN "tasks" ELSE "agents"

\* `${baseName}-${timestamp}.json`: the name is the pair it is built from
BackupName(name, t) == [base |-> BaseName(name), stamp |-> t]

\* readdirSync(backupDir).filter(f => f.startsWith(baseName + "-") && ...):
\* neither base name followed by "-" begins the other
BackupsOf(dir, name) == {f \in dir : f.name.base = BaseName(name)}

\* copyFileSync(fp, path.join(backupDir, backupName)) replaces a file of that name
copyFileSync(dir, file, backupName) ==
  {f \in dir : f.name # backupName} \cup {[name |-> backupName, file |-> file]}

\* allBackups.sort().slice(0, allBackups.length - MAX_BACKUPS): the files with
\* MAX_BACKUPS or more files of the collection after them in name order
ToDelete(allBackups) ==
  {f \in allBackups :
     Cardinality({g \in allBackups : g.name.stamp > f.name.stamp}) >= MAX_BACKUPS}

\* backupBeforeWrite(name) at millisecond t, `file` being the collection file
backupBeforeWrite(dir, name, file, t) ==
  IF ~file.exists THEN dir
  ELSE LET copied == copyFileSync(dir, file, BackupName(name, t))
       IN copied \ ToDelete(BackupsOf(copied, name))

\* readJSON(name, []) creates a missing file holding the fallback
readJSONFile(file) == IF file.exists THEN file ELSE WholeFile(<<>>)

\* mutant: the file is replaced before it is copied
writeJSONBackupAfter(fs, dir, name, result, t) ==
  [files |-> [fs EXCEPT ![name] = WholeFile(result)],
   backups |-> backupBeforeWrite(dir, name, WholeFile(result), t)]

\* writeJSON(name, data): the backup, then the file replaced through its .tmp
writeJSON(fs, dir, name, result, t) ==
  [files |-> [fs EXCEPT ![name] = WholeFile(result)],
   backups |-> backupBeforeWrite(dir, name, fs[name], t)]

\* withLock(name, fn) with a mutation that adds the item `item`
StoreWrite(name, item) ==
  LET file == readJSONFile(files[name])
      result == Append(Parsed(file), item)
      written == writeJSON([files EXCEPT ![name] = file], backups, name, result, clock)
  IN /\ files' = written.files
     /\ backups' = written.backups
     /\ last' = [NoRequest EXCEPT !.op = "write", !.body = [collection |-> name]]
     /\ UNCHANGED <<tasks, nextId, clock, fails, lockVars, ledger,
                    disk, writer, reader, versions, projects, retries>>

\* a list or get: readJSON(name, []) and its answer
StoreRead(name) ==
  /\ files' = [files EXCEPT ![name] = readJSONFile(files[name])]
  /\ last' = [NoRequest EXCEPT
                !.op = "read",
                !.body = [collection |-> name, result |-> Parsed(readJSONFile(files[name]))]]
  /\ UNCHANGED <<tasks, nextId, clock, fails, lockVars, ledger,
                 disk, writer, reader, versions, backups, projects, retries>>

(***************************************************************************)
(* SpecBackup: tasks.json has been written MAX_BACKUPS - 1 times, once a   *)
(* millisecond, agents.json never; both are written a few more times, with *)
(* the clock advancing or not between two writes.                          *)
(***************************************************************************)
\* the items 1..n
Items(n) == [i \in 1..n |-> i]

\* the writes before the first state
Earlier == MAX_BACKUPS - 1

BackupInit ==
  /\ tasks = <<>>
  /\ nextId = 1
  /\ clock = Earlier
  /\ last = NoRequest
  /\ fails = <<>>
  /\ agents = <<>>
  /\ locked = [c \in Collections |-> FALSE]
  /\ queue = [c \in Collections |-> <<>>]
  /\ pc = [p \in Callers |-> "idle"]
  /\ op = [p \in Callers |-> NoOp]
  /\ data = [p \in Callers |-> <<>>]
  /\ called = [c \in Collections |-> <<>>]
  /\ granted = [c \in Collections |-> <<>>]
  /\ ledger = <<>>
  /\ disk = [fp |-> NoFile, tmp |-> NoFile]
  /\ writer = IdleWriter
  /\ reader = IdleReader
  /\ versions = << <<>> >>
  /\ files = [c \in BackedUp |-> IF c = "tasks.json" THEN WholeFile(Items(Earlier)) ELSE NoFile]
  /\ backups = {[name |-> BackupName("tasks.json", i), file |-> WholeFile(Items(i - 1))] :
                  i \in 1..Earlier}
  /\ projects = <<>>
  /\ retries = <<>>

\* the items written to the collection so far
Written(name) == Len(files[name].content)

BackupWrite ==
  \E name \in BackedUp :
    /\ Written(name) < (IF name = "tasks.json" THEN Earlier ELSE 0) + BackupWrites
    /\ StoreWrite(name, Written(name) + 1)

BackupTick ==
  /\ clock < Earlier + BackupTicks
  /\ Tick

BackupNext == BackupWrite \/ BackupTick

SpecBackup == BackupInit /\ [][BackupNext]_vars

Min(a, b) == IF a < b THEN a ELSE b

\* C22: after n writes to a collection its backups are min(n, 50) files, the
\* ones taken by its most recent min(n, 50) writes (the write that added
\* item i copied the file holding the items before i); and a write to one
\* collection leaves every backup of the other in place.
C22_BackupPruning ==
  /\ [](\A name \in BackedUp :
          LET n == Written(name)
              kept == Min(n, MAX_BACKUPS)
          IN /\ Cardinality(BackupsOf(backups, name)) = kept
             /\ {f.file : f \in BackupsOf(backups, name)}
                  = {WholeFile(Items(i - 1)) : i \in (n - kept + 1)..n})
  /\ [][\A name \in BackedUp :
          (files'[name] = files[name])
          => BackupsOf(backups, name) \subseteq BackupsOf(backups', name)]_vars

\* the backups of a collection are never more than 50
C22_AtMostMax == \A name \in BackedUp : Cardinality(BackupsOf(backups, name)) <= MAX_BACKUPS

\* tasks.json has been written 51 times, each in its own millisecond: the
\* backup of the first write has been deleted
C22_Pruned ==
  /\ Written("tasks.json") = MAX_BACKUPS + 1
  /\ Cardinality(BackupsOf(backups, "tasks.json")) = MAX_BACKUPS
  /\ \A f \in backups : f.name.stamp # 1

\* the newest backup of the collection
NewestBackup(dir, name) ==
  CHOOSE f \in BackupsOf(dir, name) : \A g \in BackupsOf(dir, name) : g.name.stamp <= f.name.stamp

\* C23: after a write to a collection the newest backup of the collection
\* holds the file as it was before the write (the empty list that readJSON
\* stored when there was no file).
C23_BackupContent ==
  [][\A name \in BackedUp :
       (last'.op = "write" /\ files'[name] # files[name])
       => /\ BackupsOf(backups', name) # {}
          /\ NewestBackup(backups', name).file = readJSONFile(files[name])
          /\ NewestBackup(backups', name).name.stamp = clock]_vars

\* agents.json has been written twice within one millisecond, tasks.json a
\* 50th and a 51st time: the newest backup of each is the file before its
\* last write
C23_Witness ==
  /\ last.op = "write"
  /\ Written("agents.json") = 2
  /\ Cardinality(BackupsOf(backups, "agents.json")) = 1
  /\ NewestBackup(backups, "agents.json").file = WholeFile(Items(1))
  /\ Written("tasks.json") = MAX_BACKUPS + 1
  /\ NewestBackup(backups, "tasks.json").file = WholeFile(Items(MAX_BACKUPS))

(***************************************************************************)
(* SpecCorrupt: tasks.json is missing, well-formed or malformed (cut short *)
(* or edited by hand) when the store first touches it; lists and writes    *)
(* follow.                                                                 *)
(***************************************************************************)
\* a file that exists and does not parse
Malformed == [exists |-> TRUE, content |-> <<1>>, whole |-> FALSE]

CorruptInit ==
  /\ tasks = <<>>
  /\ nextId = 1
  /\ clock = 0
  /\ last = NoRequest
  /\ fails = <<>>
  /\ agents = <<>>
  /\ locked = [c \in Collections |-> FALSE]
  /\ queue = [c \in Collections |-> <<>>]
  /\ pc = [p \in Callers |-> "idle"]
  /\ op = [p \in Callers |-> NoOp]
  /\ data = [p \in Callers |-> <<>>]
  /\ called = [c \in Collections |-> <<>>]
  /\ granted = [c \in Collections |-> <<>>]
  /\ ledger = <<>>
  /\ disk = [fp |-> NoFile, tmp |-> NoFile]
  /\ writer = IdleWriter
  /\ reader = IdleReader
  /\ versions = << <<>> >>
  /\ files \in [BackedUp -> {NoFile, WholeFile(Items(1)), Malformed}]
  /\ backups = {}
  /\ projects = <<>>
  /\ retries = <<>>

CorruptRead == \E name \in BackedUp : StoreRead(name)

CorruptWrite ==
  \E name \in BackedUp :
    /\ Written(name) <= CorruptWrites
    /\ StoreWrite(name, Written(name) + 1)

CorruptTick ==
  /\ clock < CorruptTicks
  /\ Tick

CorruptNext == CorruptRead \/ CorruptWrite \/ CorruptTick

SpecCorrupt == CorruptInit /\ [][CorruptNext]_vars

\* the file exists and its content does not parse
IsMalformed(file) == file.exists /\ ~file.whole

\* C27: a list or get of a collection whose file is malformed fails with an
\* error and does not answer the empty list, and no write replaces a
\* malformed file.
C27_CorruptionSurfaced ==
  [][\A name \in BackedUp :
       IsMalformed(files[name])
       => /\ (last'.op = "read" /\ last' # last /\ last'.body.collection = name)
             => (last'.error # "" /\ last'.body.result # <<>>)
          /\ files'[name] = files[name]]_vars

\* a malformed tasks.json has been listed as the empty collection
C27_Masked ==
  /\ last.op = "read"
  /\ last.body = [collection |-> "tasks.json", result |-> <<>>]
  /\ last.error = ""
  /\ files["tasks.json"] = Malformed

\* a malformed tasks.json has been replaced by a collection of the one item
\* the write added; the malformed content is in a backup
C27_Overwritten ==
  /\ last.op = "write"
  /\ files["tasks.json"] = WholeFile(<<2>>)
  /\ \E f \in backups : f.file = Malformed

(***************************************************************************)
(* Task deletion: DELETE /tasks/:id deletes and then rewrites the          *)
(* dependency lists that name the task; board_delete_task deletes.         *)
(***************************************************************************)
\* t.dependencies.filter(d => d !== taskId)
WithoutDep(deps, taskId) == SelectSeq(deps, LAMBDA d : d # taskId)

\* the clean-up loop over the snapshot allTasks, from index i on
RECURSIVE CleanFrom(_, _, _, _, _)
CleanFrom(ts, allTasks, i, taskId, t) ==
  IF i > Len(allTasks) THEN ts
  ELSE CleanFrom(
         IF Includes(allTasks[i].dependencies, taskId)
         THEN updateTask(ts, allTasks[i].id,
                         [dependencies |-> WithoutDep(allTasks[i].dependencies, taskId)], t)
         ELSE ts,
         allTasks, i + 1, taskId, t)

\* DELETE /tasks/:id
DeleteTaskReq(id) ==
  LET deleted == deleteTask(tasks, id)
  IN /\ tasks' = IF Exists(tasks, id) THEN CleanFrom(deleted, deleted, 1, id, clock)
                 ELSE deleted
     /\ last' = [NoRequest EXCEPT !.op = "delete", !.id = id,
                   !.error = IF Exists(tasks, id) THEN "" ELSE "Task not found"]
     /\ UNCHANGED <<nextId, clock, fails, lockVars, fileVars>>

\* board_delete_task
McpDeleteTaskReq(id) ==
  /\ tasks' = deleteTask(tasks, id)
  /\ last' = [NoRequest EXCEPT !.op = "mcp-delete", !.id = id,
                !.error = IF Exists(tasks, id) THEN "" ELSE "Task not found"]
  /\ UNCHANGED <<nextId, clock, fails, lockVars, fileVars>>

(***************************************************************************)
(* SpecDelete: tasks that depend on nothing, on task 1, or on task 1 and   *)
(* an id no task has, moved into doing and done, and deleted through REST  *)
(* and MCP.                                                                *)
(***************************************************************************)
DeleteColumns == {"doing", "done"}

\* POST /tasks stores the dependencies it is given: no id is looked up
DeleteDeps == {<<>>, <<1>>, <<GhostId, 1>>}

DeleteCreate ==
  /\ \E deps \in DeleteDeps :
       /\ \A i \in 1..Len(deps) : deps[i] < nextId
       /\ CreateTaskReq(CreateBody("", deps, FALSE, Undefined, NoNextTask))
  /\ Bounded(DeleteTasks, DeleteComments)
  /\ UNCHANGED ledger

DeleteMove ==
  /\ \E id \in 1..DeleteTasks, column \in DeleteColumns : MoveTaskReq(id, column)
  /\ Bounded(DeleteTasks, DeleteComments)
  /\ UNCHANGED ledger

DeleteRest ==
  /\ \E id \in 1..DeleteTasks : DeleteTaskReq(id)
  /\ UNCHANGED ledger

DeleteMcp ==
  /\ \E id \in 1..DeleteTasks : McpDeleteTaskReq(id)
  /\ UNCHANGED ledger

DeleteNext == DeleteCreate \/ DeleteMove \/ DeleteRest \/ DeleteMcp

SpecDelete == EngineInit /\ [][DeleteNext]_vars

\* no stored task names `id` among its dependencies
Unreferenced(ts, id) == \A i \in 1..Len(ts) : ~Includes(ts[i].dependencies, id)

\* C24: after a deletion through REST or MCP that found its task, no stored
\* task has the deleted id in its dependencies list.
C24_DependencyCleanup ==
  [][(last'.op \in {"delete", "mcp-delete"} /\ last'.error = "" /\ tasks' # tasks)
     => Unreferenced(tasks', last'.id)]_vars

\* the same for DELETE /tasks/:id alone
C24_RestCleanup ==
  [][(last'.op = "delete" /\ last'.error = "" /\ tasks' # tasks)
     => Unreferenced(tasks', last'.id)]_vars

\* task 1 was deleted through REST and task 2, which depended on it, is
\* left with the id no task has
C24_RestCleaned ==
  /\ last.op = "delete" /\ last.id = 1 /\ last.error = ""
  /\ ~Exists(tasks, 1)
  /\ Exists(tasks, 2) /\ getTask(tasks, 2).dependencies = <<GhostId>>

\* task 1 was deleted through MCP and task 2 still depends on it
C24_McpDangling ==
  /\ last.op = "mcp-delete" /\ last.id = 1 /\ last.error = ""
  /\ ~Exists(tasks, 1)
  /\ Exists(tasks, 2) /\ getTask(tasks, 2).dependencies = <<1>>

\* every dependency of the task that is in the store is done
ExistingDepsDone(ts, task) ==
  \A i \in 1..Len(task.dependencies) :
    Exists(ts, task.dependencies[i]) => getTask(ts, task.dependencies[i]).column = "done"

\* the one thing that stops the task from entering doing is the task `id`
OnlyBlockedBy(ts, task, id) ==
  /\ MoveError(ts, task.id, "doing") = "Blocked by unresolved dependencies"
  /\ \A i \in Blockers(ts, task) : task.dependencies[i] = id

\* C30: a move into doing of a task whose dependencies are each done or not
\* in the store is accepted; and once a store-level delete has removed the
\* one unfinished dependency of a task, the move into doing that was refused
\* is accepted.
C30_MissingDependency ==
  /\ [][(last'.op = "move" /\ last'.column = "doing" /\ Exists(tasks, last'.id))
        => (ExistingDepsDone(tasks, getTask(tasks, last'.id)) => last'.error = "")]_vars
  /\ [][(last'.op = "mcp-delete" /\ last'.error = "" /\ tasks' # tasks)
        => \A i \in 1..Len(tasks') :
             OnlyBlockedBy(tasks, tasks'[i], last'.id)
             => MoveError(tasks', tasks'[i].id, "doing") = ""]_vars

\* task 2 depends on an id no task ever had and on task 1, which was deleted
\* without clean-up before it was done: task 2 has entered doing
C30_Witness ==
  /\ last.op = "move" /\ last.id = 2 /\ last.column = "doing" /\ last.error = ""
  /\ getTask(tasks, 2).dependencies = <<GhostId, 1>>
  /\ ~Exists(tasks, 1)
  /\ getTask(tasks, 2).column = "doing"

(***************************************************************************)
(* Agent registration: POST /agents looks the id up in a lock-free read,   *)
(* answers 409 when it finds it and calls store.registerAgent otherwise.   *)
(* The look-up and the call run up to the first await, the one on the lock *)
(* of agents.json; the section under the lock follows when the event loop  *)
(* resumes the request.                                                    *)
(***************************************************************************)
\* store.getAgents().find(a => a.id === id)
FindAgent(as, id) == \E i \in 1..Len(as) : as[i].id = id

\* the registration caller p asks for
RegisterOp(p, id) == [kind |-> "register", collection |-> "agents.json", id |-> id, by |-> p]

\* POST /agents {id, name} as request p, up to its answer 409 or its first await
RegisterAgentReq(p, id) ==
  /\ pc[p] = "idle"
  /\ IF FindAgent(agents, id)
     THEN /\ pc' = [pc EXCEPT ![p] = "rejected"]
          /\ op' = [op EXCEPT ![p] = RegisterOp(p, id)]
          /\ UNCHANGED <<tasks, agents, nextId, clock, last, fails, locked, queue, data,
                         called, granted, ledger, fileVars>>
     ELSE Call(p, RegisterOp(p, id))

(***************************************************************************)
(* SpecRegister: as many registration requests as there are callers, for   *)
(* two agent ids, each resumed when the event loop gets to it.             *)
(***************************************************************************)
RegisterIds == {1, 2}

RegisterRequest == \E p \in Callers, id \in RegisterIds : RegisterAgentReq(p, id)

\* the request holds the lock: readJSON, then the upsert, writeJSON and release
RegisterResume == \E p \in Callers : Read(p) \/ Write(p)

RegisterNext == RegisterRequest \/ RegisterResume

SpecRegister == EngineInit /\ [][RegisterNext]_vars

\* the requests for `id` that were answered 201
Accepted(id) == {p \in Callers : op[p] = RegisterOp(p, id) /\ pc[p] = "done"}

\* the requests for `id` that got an answer
Answered(id) == {p \in Callers : op[p] = RegisterOp(p, id) /\ pc[p] \in {"done", "rejected"}}

\* C26: of the registration requests that carry one agent id and have been
\* answered, exactly one was accepted; the stored record of the id is the
\* record of that request, and no two stored records share an id.
C26_CreateOnly ==
  \A id \in RegisterIds :
    /\ (Answered(id) # {}) => (Cardinality(Accepted(id)) = 1)
    /\ \A p \in Accepted(id) :
         \E i \in 1..Len(agents) : agents[i].id = id /\ agents[i].name = p
    /\ Cardinality({i \in 1..Len(agents) : agents[i].id = id}) <= 1

\* no two stored records share an id
C26_UniqueIds ==
  \A id \in RegisterIds : Cardinality({i \in 1..Len(agents) : agents[i].id = id}) <= 1

\* requests 1 and 2 for agent 1 were both answered 201 and the record is the
\* one of request 2; request 3 came later and was answered 409
C26_BothAccepted ==
  /\ Accepted(1) = {1, 2}
  /\ pc[3] = "rejected" /\ op[3].id = 1
  /\ agents = <<[id |-> 1, name |-> 2, role |-> "", status |-> "online"]>>

(***************************************************************************)
(* deleteProject (store.ts): one section under the lock of projects.json   *)
(* that splices the project out, and, when it was found, one section under *)
(* the lock of tasks.json that filters its tasks out.  Other requests run  *)
(* between the two.                                                        *)
(***************************************************************************)
\* projects.splice(idx, 1), or the collection as it is for an unknown id
SpliceProject(ps, id) ==
  LET idx == FindIndex(ps, id)
  IN IF idx = 0 THEN ps ELSE SubSeq(ps, 1, idx - 1) \o SubSeq(ps, idx + 1, Len(ps))

\* mutant: the tasks of every project are dropped
CascadeAll(ts, id) == <<>>

\* tasks.filter(t => t.projectId !== id)
Cascade(ts, id) == SelectSeq(ts, LAMBDA t : t.projectId # id)

\* deleteProject(id) by caller p, up to the end of its section on projects.json:
\* it returns false there for an unknown id
DeleteProjectBegin(p, id) ==
  /\ pc[p] = "idle"
  /\ projects' = SpliceProject(projects, id)
  /\ IF Exists(projects, id)
     THEN /\ pc' = [pc EXCEPT ![p] = "cascade"]
          /\ op' = [op EXCEPT ![p] = [kind |-> "deleteProject",
                                      collection |-> "tasks.json", id |-> id]]
          /\ last' = [NoRequest EXCEPT !.op = "deleteProject.projects", !.id = id]
     ELSE /\ last' = [NoRequest EXCEPT !.op = "deleteProject", !.id = id,
                        !.error = "Project not found"]
          /\ UNCHANGED <<pc, op>>
  /\ UNCHANGED <<tasks, nextId, clock, fails, agents, locked, queue, data, called, granted,
                 ledger, disk, writer, reader, versions, files, backups, retries>>

\* the section on tasks.json, after which deleteProject returns true
DeleteProjectCascade(p) ==
  /\ pc[p] = "cascade"
  /\ tasks' = Cascade(tasks, op[p].id)
  /\ pc' = [pc EXCEPT ![p] = "idle"]
  /\ op' = [op EXCEPT ![p] = NoOp]
  /\ last' = [NoRequest EXCEPT !.op = "deleteProject", !.id = op[p].id]
  /\ UNCHANGED <<nextId, clock, fails, agents, locked, queue, data, called, granted,
                 ledger, fileVars>>

(***************************************************************************)
(* SpecCascade: two projects; tasks are created in them, before and after *)
(* they are deleted, and commented on while projects are deleted.          *)
(***************************************************************************)
CascadeProjects == {1, 2}

CascadeInit ==
  /\ tasks = <<>>
  /\ nextId = 1
  /\ clock = 0
  /\ last = NoRequest
  /\ fails = <<>>
  /\ agents = <<>>
  /\ locked = [c \in Collections |-> FALSE]
  /\ queue = [c \in Collections |-> <<>>]
  /\ pc = [p \in Callers |-> "idle"]
  /\ op = [p \in Callers |-> NoOp]
  /\ data = [p \in Callers |-> <<>>]
  /\ called = [c \in Collections |-> <<>>]
  /\ granted = [c \in Collections |-> <<>>]
  /\ ledger = <<>>
  /\ disk = [fp |-> NoFile, tmp |-> NoFile]
  /\ writer = IdleWriter
  /\ reader = IdleReader
  /\ versions = << <<>> >>
  /\ files = [c \in BackedUp |-> NoFile]
  /\ backups = {}
  /\ projects = <<[id |-> 1], [id |-> 2]>>
  /\ retries = <<>>

CascadeCreate ==
  /\ \E projectId \in CascadeProjects :
       CreateTaskReq(CreateBody("", <<>>, FALSE, Undefined, NoNextTask)
                       @@ [projectId |-> projectId])
  /\ Bounded(CascadeTasks, CascadeComments)
  /\ UNCHANGED ledger

CascadeComment ==
  /\ \E id \in 1..CascadeTasks : AddCommentReq(id)
  /\ Bounded(CascadeTasks, CascadeComments)
  /\ UNCHANGED ledger

\* one deleteProject call is in progress at a time, as caller 1
CascadeBegin == \E id \in CascadeProjects \cup {GhostId} : DeleteProjectBegin(1, id)

CascadeEnd == DeleteProjectCascade(1)

CascadeNext == CascadeCreate \/ CascadeComment \/ CascadeBegin \/ CascadeEnd

SpecCascade == CascadeInit /\ [][CascadeNext]_vars

\* the positions of the entities of ts that are not of project `id`
OtherAt(ts, id) == {i \in 1..Len(ts) : ts[i].projectId # id}

\* `after` is `before` without the entities at the positions outside `keep`,
\* the others as they were and in their order
KeepsInOrder(before, after, keep) ==
  /\ Len(after) = Cardinality(keep)
  /\ \A i \in keep : after[Cardinality({j \in keep : j <= i})] = before[i]

\* C25: the projects section of deleteProject removes the project and leaves
\* the other projects and every task as they are; the tasks section, with
\* which the call returns true, leaves no task of the project and keeps the
\* tasks of other projects as they are and in their order, the project still
\* being absent; a call for an unknown id changes neither collection.
C25_DeleteCascade ==
  /\ [][(last'.op = "deleteProject.projects" /\ last' # last)
        => /\ ~Exists(projects', last'.id)
           /\ KeepsInOrder(projects, projects',
                           {i \in 1..Len(projects) : projects[i].id # last'.id})
           /\ tasks' = tasks]_vars
  /\ [][(pc[1] = "cascade" /\ pc'[1] = "idle")
        => /\ last'.op = "deleteProject" /\ last'.error = ""
           /\ ~Exists(projects', last'.id)
           /\ \A i \in 1..Len(tasks') : tasks'[i].projectId # last'.id
           /\ KeepsInOrder(tasks, tasks', OtherAt(tasks, last'.id))]_vars
  /\ [][(last'.op = "deleteProject" /\ last'.error # "")
        => (projects' = projects /\ tasks' = tasks)]_vars

\* deleteProject(1) has returned true: of the tasks 1 to 3 the two of
\* project 1 are gone, and task 2, of project 2 and commented on meanwhile,
\* is kept
C25_Witness ==
  /\ last.op = "deleteProject" /\ last.id = 1 /\ last.error = ""
  /\ projects = <<[id |-> 2]>>
  /\ nextId = 4
  /\ Len(tasks) = 1
  /\ tasks[1].id = 2 /\ tasks[1].projectId = 2 /\ Len(tasks[1].comments) = 1

(***************************************************************************)
(* SpecNotify: tasks of two projects that depend on task 1 or on nothing,  *)
(* moved into doing and done.                                              *)
(***************************************************************************)
NotifyColumns == {"doing", "done"}

\* a task depends on nothing or on task 1
NotifyDeps == {<<>>, <<1>>}

NotifyCreate ==
  /\ \E deps \in NotifyDeps, projectId \in {1, 2} :
       /\ \A i \in 1..Len(deps) : deps[i] < nextId
       /\ CreateTaskReq(CreateBody("", deps, FALSE, Undefined, NoNextTask)
                          @@ [projectId |-> projectId])
  /\ Bounded(NotifyTasks, NotifyComments)
  /\ UNCHANGED ledger

NotifyMove ==
  /\ \E id \in 1..NotifyTasks, column \in NotifyColumns : MoveTaskReq(id, column)
  /\ Bounded(NotifyTasks, NotifyComments)
  /\ UNCHANGED ledger

NotifyNext == NotifyCreate \/ NotifyMove

SpecNotify == EngineInit /\ [][NotifyNext]_vars

\* the comments the step has added to the task
AddedComments(task) ==
  SubSeq(getTask(tasks', task.id).comments, Len(task.comments) + 1,
         Len(getTask(tasks', task.id).comments))

RECURSIVE NextDependent(_, _, _)
NextDependent(allTasks, i, taskId) ==
  IF i > Len(allTasks) \/ Includes(allTasks[i].dependencies, taskId) THEN i
  ELSE NextDependent(allTasks, i + 1, taskId)

\* moveTask(id, column) by caller p up to its first await: the checks, the
\* updates computed from the task as read, and the call of updateTask
MoveCall(p, id, column) ==
  /\ pc[p] = "idle"
  /\ LET err == MoveError(tasks, id, column)
     IN IF err # ""
        THEN /\ last' = [NoRequest EXCEPT !.op = "move", !.id = id, !.column = column,
                           !.error = err, !.requiresReview = (err = "Quality gate")]
             /\ UNCHANGED <<pc, op>>
        ELSE /\ pc' = [pc EXCEPT ![p] = "move.update"]
             /\ op' = [op EXCEPT ![p] =
                         [kind |-> "move", collection |-> "tasks.json", id |-> id,
                          column |-> column,
                          updates |-> MoveUpdates(getTask(tasks, id), column, clock),
                          updated |-> NoTask, i |-> 0]]
             /\ last' = [NoRequest EXCEPT !.op = "move.call", !.id = id, !.column = column]
  /\ UNCHANGED <<tasks, nextId, clock, fails, agents, locked, queue, data, called, granted,
                 ledger, fileVars>>

\* the section of `await store.updateTask(taskId, updates)`, and what follows
\* it up to the next await: the retry decision, or the list of all tasks
MoveWrite(p) ==
  /\ pc[p] = "move.update"
  /\ tasks' = updateTask(tasks, op[p].id, op[p].updates, clock)
  /\ IF ~Exists(tasks, op[p].id)
     THEN /\ pc' = [pc EXCEPT ![p] = "idle"]
          /\ op' = [op EXCEPT ![p] = NoOp]
          /\ data' = data
          /\ last' = [NoRequest EXCEPT !.op = "move", !.id = op[p].id,
                        !.column = op[p].column, !.error = "Task not found"]
     ELSE /\ op' = [op EXCEPT ![p].updated = getTask(tasks', op[p].id),
                              ![p].i = IF op[p].column = "done"
                                       THEN NextDependent(tasks', 1, op[p].id) ELSE 0]
          /\ data' = [data EXCEPT ![p] = IF op[p].column = "done" THEN tasks' ELSE <<>>]
          /\ pc' = [pc EXCEPT ![p] =
                      IF op[p].column = "failed"
                      THEN IF WillRetry(getTask(tasks', op[p].id))
                           THEN "move.retry" ELSE "move.exhausted"
                      ELSE IF op[p].column = "done" THEN "move.notify" ELSE "move.finish"]
          /\ last' = [NoRequest EXCEPT !.op = "move.section", !.id = op[p].id]
  /\ UNCHANGED <<nextId, clock, fails, agents, locked, queue, called, granted,
                 ledger, fileVars>>

\* the section of `await store.updateTask(updated.id, retryUpdates)`
MoveRetryWrite(p) ==
  /\ pc[p] = "move.retry"
  /\ tasks' = updateTask(tasks, op[p].id, RetryUpdates(op[p].updated), clock)
  /\ pc' = [pc EXCEPT ![p] = "move.retried"]
  /\ last' = [NoRequest EXCEPT !.op = "move.section", !.id = op[p].id]
  /\ UNCHANGED <<nextId, clock, fails, agents, locked, queue, op, data, called, granted,
                 ledger, fileVars>>

\* the section of the addComment that follows: "Auto-retry n/m" after the
\* retry, "Max retries exhausted" without it
MoveRetryComment(p) ==
  /\ pc[p] \in {"move.retried", "move.exhausted"}
  /\ LET updated == op[p].updated
     IN tasks' = addComment(tasks, op[p].id,
                   IF pc[p] = "move.retried"
                   THEN Comment("system", "Auto-retry", RetryCountOf(updated) + 1,
                                MaxRetriesOf(updated), updated.id)
                   ELSE Comment("system", "Max retries exhausted", MaxRetriesOf(updated),
                                MaxRetriesOf(updated), updated.id), clock)
  /\ pc' = [pc EXCEPT ![p] = "move.finish"]
  /\ last' = [NoRequest EXCEPT !.op = "move.section", !.id = op[p].id]
  /\ UNCHANGED <<nextId, clock, fails, agents, locked, queue, op, data, called, granted,
                 ledger, fileVars>>

\* the section of one `await store.addComment(t.id, ...)` of the dependents
\* loop, t being a task of the list taken after the write
MoveNotifyOne(p) ==
  /\ pc[p] = "move.notify"
  /\ IF op[p].i > Len(data[p])
     THEN /\ pc' = [pc EXCEPT ![p] = "move.finish"]
          /\ UNCHANGED <<tasks, op>>
     ELSE /\ tasks' = addComment(tasks, data[p][op[p].i].id,
                        Comment("system", "Dependency resolved", 0, 0, op[p].id), clock)
          /\ op' = [op EXCEPT ![p].i = NextDependent(data[p], op[p].i + 1, op[p].id)]
          /\ UNCHANGED pc
  /\ last' = [NoRequest EXCEPT !.op = "move.section", !.id = op[p].id]
  /\ UNCHANGED <<nextId, clock, fails, agents, locked, queue, data, called, granted,
                 ledger, fileVars>>

\* the section of the createTask of the chained task, when there is one, and
\* the return of moveTask
MoveFinish(p) ==
  /\ pc[p] = "move.finish"
  /\ LET updated == op[p].updated
         chained == Chains(updated, op[p].column)
     IN /\ tasks' = IF chained THEN createTask(tasks, ChainedTask(updated, nextId, clock))
                    ELSE tasks
        /\ nextId' = IF chained THEN nextId + 1 ELSE nextId
        /\ fails' = IF chained THEN Append(fails, 0) ELSE fails
        /\ last' = [NoRequest EXCEPT !.op = "move", !.id = op[p].id,
                      !.column = op[p].column,
                      !.retried = (op[p].column = "failed" /\ WillRetry(updated)),
                      !.chained = chained]
  /\ retries' = IF op[p].column = "failed" /\ WillRetry(op[p].updated)
                THEN Append(retries, op[p].id) ELSE retries
  /\ pc' = [pc EXCEPT ![p] = "idle"]
  /\ op' = [op EXCEPT ![p] = NoOp]
  /\ data' = [data EXCEPT ![p] = <<>>]
  /\ UNCHANGED <<clock, agents, locked, queue, called, granted, ledger, disk, writer, reader,
                 versions, dirVars>>

(***************************************************************************)
(* SpecComments: moves of task 1, one at a time, run section by section    *)
(* while tasks are created, commented on, PATCHed and deleted between the  *)
(* sections.                                                               *)
(***************************************************************************)
CommentColumns == {"failed", "done"}

\* the moved task and the task that depends on it
CommentIds == {1, 2}

\* the step stays within the ids and comments of SpecComments
CommentBounded == Bounded(Cardinality(CommentIds), CommentCap) /\ UNCHANGED ledger

\* task 1 depends on nothing, the tasks after it on task 1
CommentsCreate ==
  /\ CreateTaskReq(CreateBody("", IF nextId = 1 THEN <<>> ELSE <<1>>, FALSE, 1, NoNextTask))
  /\ CommentBounded

CommentsAdd == (\E id \in CommentIds : AddCommentReq(id)) /\ CommentBounded

CommentsPatch ==
  /\ \E id \in CommentIds : PatchTaskReq(id, [column |-> "todo"])
  /\ CommentBounded

CommentsDelete == (\E id \in CommentIds : McpDeleteTaskReq(id)) /\ CommentBounded

CommentsMoveCall ==
  /\ \E column \in CommentColumns : MoveCall(1, 1, column)
  /\ CommentBounded

CommentsMoveStep ==
  /\ MoveWrite(1) \/ MoveRetryWrite(1) \/ MoveRetryComment(1) \/ MoveNotifyOne(1)
       \/ MoveFinish(1)
  /\ CommentBounded

CommentsNext ==
  \/ CommentsCreate \/ CommentsAdd \/ CommentsPatch \/ CommentsDelete
  \/ CommentsMoveCall \/ CommentsMoveStep

SpecComments == EngineInit /\ [][CommentsNext]_vars

\* C29: at every step the comments of a task that is stored before and
\* after the step are, after it, the comments it had with, possibly, more
\* at the end; and an addComment request on a stored task adds exactly one.
C29_CommentsAppendOnly ==
  /\ [][\A i \in 1..Len(tasks) :
          Exists(tasks', tasks[i].id)
          => IsPrefix(tasks[i].comments, getTask(tasks', tasks[i].id).comments)]_vars
  /\ [][(last'.op = "comment" /\ last'.error = "")
        => Len(getTask(tasks', last'.id).comments)
             = Len(getTask(tasks, last'.id).comments) + 1]_vars

\* a move of task 1 into failed was retried while a user comment was added
\* between its sections: the comment stands before the Auto-retry comment,
\* and the task is back in todo
C29_Witness ==
  /\ last.op = "move" /\ last.id = 1 /\ last.retried
  /\ Exists(tasks, 1)
  /\ Len(getTask(tasks, 1).comments) = 2
  /\ getTask(tasks, 1).comments[1].author = "a"
  /\ getTask(tasks, 1).comments[2].kind = "Auto-retry"
  /\ getTask(tasks, 1).column = "todo"
  /\ getTask(tasks, 1).failedAt = Undefined

(***************************************************************************)
(* SpecRetryRace: one task, and two callers of moveTask that move it into  *)
(* failed, their sections on tasks.json taken in any order.                *)
(***************************************************************************)
\* the callers of moveTask that run at the same time
RaceCallers == {1, 2}

\* the maxRetries the task is created with
RaceMaxRetries == {1, 2}

RaceBounded == Bounded(1, RaceComments) /\ UNCHANGED ledger

RetryRaceCreate ==
  /\ tasks = <<>>
  /\ \E m \in RaceMaxRetries : CreateTaskReq(CreateBody("", <<>>, FALSE, m, NoNextTask))
  /\ RaceBounded

RetryRaceCall == (\E p \in RaceCallers : MoveCall(p, 1, "failed")) /\ RaceBounded

RetryRaceStep ==
  /\ \E p \in RaceCallers :
       MoveWrite(p) \/ MoveRetryWrite(p) \/ MoveRetryComment(p) \/ MoveFinish(p)
  /\ RaceBounded

RetryRaceNext == RetryRaceCreate \/ RetryRaceCall \/ RetryRaceStep

SpecRetryRace == EngineInit /\ [][RetryRaceNext]_vars

\* the moves of task `id` that returned retried = true
Retried(id) == Cardinality({i \in 1..Len(retries) : retries[i] = id})

\* C31: however the sections of concurrent moves of a task into failed
\* interleave, the moves that return retried = true are never more than the
\* task's maxRetries, and the retry write of each of them raises the stored
\* retryCount by exactly one.
C31_ConcurrentRetryBound ==
  /\ [](\A i \in 1..Len(tasks) : Retried(tasks[i].id) <= MaxRetriesOf(tasks[i]))
  /\ [][\A p \in RaceCallers :
          (pc[p] = "move.retry" /\ pc'[p] = "move.retried")
          => /\ getTask(tasks', op[p].id).column = "todo"
             /\ RetryCountOf(getTask(tasks', op[p].id))
                  = RetryCountOf(getTask(tasks, op[p].id)) + 1]_vars

\* both moves of a task with maxRetries = 1 returned retried = true, and the
\* stored retryCount is 1
C31_BothRetried ==
  /\ retries = <<1, 1>>
  /\ \A p \in RaceCallers : pc[p] = "idle"
  /\ MaxRetriesOf(getTask(tasks, 1)) = 1
  /\ RetryCountOf(getTask(tasks, 1)) = 1
  /\ getTask(tasks, 1).column = "todo"

(***************************************************************************)
(* SpecReviewRace: one task that requires review, and two callers of       *)
(* moveTask that move it between todo, review and done.                    *)
(***************************************************************************)
ReviewRaceColumns == {"todo", "review", "done"}

ReviewRaceCreate ==
  /\ tasks = <<>>
  /\ CreateTaskReq(CreateBody("", <<>>, TRUE, Undefined, NoNextTask))
  /\ RaceBounded

ReviewRaceCall ==
  /\ \E p \in RaceCallers, column \in ReviewRaceColumns : MoveCall(p, 1, column)
  /\ RaceBounded

ReviewRaceStep ==
  /\ \E p \in RaceCallers : MoveWrite(p) \/ MoveNotifyOne(p) \/ MoveFinish(p)
  /\ RaceBounded

ReviewRaceNext == ReviewRaceCreate \/ ReviewRaceCall \/ ReviewRaceStep

SpecReviewRace == EngineInit /\ [][ReviewRaceNext]_vars

\* caller p's `await store.updateTask(taskId, updates)` runs in this step
\* and commits `column` for a stored task
Commits(p, column) ==
  /\ pc[p] = "move.update" /\ pc'[p] # "move.update"
  /\ op[p].column = column
  /\ Exists(tasks, op[p].id)

\* C32: however concurrent moves of a task that requires review interleave,
\* a move that commits column = done replaces a stored column review.
C32_QualityGateAtomic ==
  [][\A p \in RaceCallers :
       (Commits(p, "done") /\ getTask(tasks, op[p].id).requiresReview)
       => getTask(tasks, op[p].id).column = "review"]_vars

(***************************************************************************)
(* SpecDepRace: task 1 and task 2, which depends on it; one caller moves   *)
(* task 2 into doing while the other moves task 1 into done and out of it. *)
(***************************************************************************)
DepRaceIds == {1, 2}

DepRaceBounded == Bounded(Cardinality(DepRaceIds), RaceComments) /\ UNCHANGED ledger

DepRaceCreate ==
  /\ CreateTaskReq(CreateBody("", IF nextId = 1 THEN <<>> ELSE <<1>>, FALSE, Undefined,
                              NoNextTask))
  /\ DepRaceBounded

\* caller 1 moves the dependent task, caller 2 the task it depends on
DepRaceCall ==
  /\ \/ \E column \in {"todo", "doing"} : MoveCall(1, 2, column)
     \/ \E column \in {"todo", "done"} : MoveCall(2, 1, column)
  /\ DepRaceBounded

DepRaceStep ==
  /\ \E p \in RaceCallers : MoveWrite(p) \/ MoveNotifyOne(p) \/ MoveFinish(p)
  /\ DepRaceBounded

DepRaceNext == DepRaceCreate \/ DepRaceCall \/ DepRaceStep

SpecDepRace == EngineInit /\ [][DepRaceNext]_vars

\* C33: however a move of a task into doing interleaves with moves of its
\* dependencies, at the step that commits column = doing for the task every
\* stored dependency of it is stored in done.
C33_DependencyGateAtomic ==
  [][\A p \in RaceCallers :
       Commits(p, "doing") => ExistingDepsDone(tasks, getTask(tasks, op[p].id))]_vars

(***************************************************************************)
(* The task in the result of moveTask against the task the store holds    *)
(* when the call returns, for moves served one at a time.                  *)
(***************************************************************************)
\* the result of the move the step serves, computed by moveTask from the
\* store the move found
MoveResult == moveTask(tasks, last'.id, last'.column, nextId, clock)

\* column, status, retryCount and failedAt of the two records agree
SameLifecycle(returned, stored) ==
  /\ returned.column = stored.column
  /\ returned.status = stored.status
  /\ returned.retryCount = stored.retryCount
  /\ returned.failedAt = stored.failedAt

\* C34: when a move succeeds, the task in its result has the column, status,
\* retryCount and failedAt of the task the store holds when it returns, also
\* when the move was retried.
C34_ReturnedEqualsStored ==
  [][(last'.op = "move" /\ last'.error = "")
     => SameLifecycle(MoveResult.task, getTask(tasks', last'.id))]_vars

\* the same for the successful moves that were not retried
C34_EqualUnlessRetried ==
  [][(last'.op = "move" /\ last'.error = "" /\ ~last'.retried)
     => SameLifecycle(MoveResult.task, getTask(tasks', last'.id))]_vars

\* a retried move returns the task as its first write left it: in failed,
\* failedAt set, retryCount not yet raised
C34_RetriedReturnsFailed ==
  [][(last'.op = "move" /\ last'.error = "" /\ last'.retried)
     => /\ MoveResult.task.column = "failed"
        /\ MoveResult.task.failedAt # Undefined
        /\ getTask(tasks', last'.id).column = "todo"
        /\ getTask(tasks', last'.id).failedAt = Undefined
        /\ getTask(tasks', last'.id).retryCount = RetryCountOf(MoveResult.task) + 1]_vars

(***************************************************************************)
(* SpecRaw: updates that carry a column alone.  Task 1 is plain; task 2    *)
(* depends on it, requires review and carries a nextTask.  Moves give the  *)
(* tasks timestamps, retry counts and comments.                            *)
(***************************************************************************)
RawIds == {1, 2}

RawColumns == {"doing", "done", "failed"}

RawBounded == Bounded(Cardinality(RawIds), RawComments) /\ UNCHANGED ledger

RawCreate ==
  /\ IF nextId = 1
     THEN CreateTaskReq(CreateBody("", <<>>, FALSE, 1, NoNextTask))
     ELSE CreateTaskReq(CreateBody("", <<1>>, TRUE, 1, Template))
  /\ RawBounded

RawMove == (\E id \in RawIds, column \in RawColumns : MoveTaskReq(id, column)) /\ RawBounded

RawPatch ==
  /\ \E id \in RawIds, column \in VALID_COLUMNS : PatchTaskReq(id, [column |-> column])
  /\ RawBounded

RawNext == RawCreate \/ RawMove \/ RawPatch

SpecRaw == EngineInit /\ [][RawNext]_vars

\* the record but for its column, status and updatedAt
Framed(task) == [task EXCEPT !.column = "", !.status = "", !.updatedAt = Undefined]

\* C35: an update that carries a column alone succeeds on a stored task for
\* every column, whatever its dependencies and requiresReview; the task has
\* the column as column and status afterwards and is otherwise as it was up
\* to updatedAt, every other task is as it was, and no task is created.
C35_RawUpdate ==
  [][(last'.op = "patch" /\ Exists(tasks, last'.id))
     => /\ last'.error = ""
        /\ Len(tasks') = Len(tasks)
        /\ \A i \in 1..Len(tasks) :
             IF tasks[i].id = last'.id
             THEN /\ tasks'[i].column = last'.body.column
                  /\ tasks'[i].status = last'.body.column
                  /\ Framed(tasks'[i]) = Framed(tasks[i])
             ELSE tasks'[i] = tasks[i]]_vars

\* task 2 was taken into done by an update while it requires review, was not
\* in review, depends on a task that is not done and carries a nextTask: it
\* has no completedAt, no comment was added and no third task exists
C35_Witness ==
  /\ last.op = "patch" /\ last.id = 2 /\ last.body.column = "done" /\ last.error = ""
  /\ Len(tasks) = 2
  /\ tasks[2].id = 2 /\ tasks[2].column = "done" /\ tasks[2].status = "done"
  /\ tasks[2].requiresReview /\ tasks[2].nextTask.present
  /\ tasks[2].completedAt = Undefined /\ tasks[2].startedAt = Undefined
  /\ tasks[2].comments = <<>>
  /\ tasks[1].column = "backlog" /\ tasks[1].comments = <<>>

(***************************************************************************)
(* What updateTask, deleteTask and addComment return (store.ts): `result`  *)
(* and `found`, set inside the section.                                    *)
(***************************************************************************)
\* updateTask: tasks[idx] after the merge, or undefined
updateTaskResult(ts, id, updates, t) ==
  IF FindIndex(ts, id) = 0 THEN NoTask ELSE getTask(updateTask(ts, id, updates, t), id)

\* deleteTask: found
deleteTaskResult(ts, id) == FindIndex(ts, id) # 0

\* addComment: tasks[idx] with the comment, or undefined
addCommentResult(ts, id, comment, t) ==
  IF FindIndex(ts, id) = 0 THEN NoTask ELSE getTask(addComment(ts, id, comment, t), id)

(***************************************************************************)
(* SpecMissing: tasks are created, updated, commented on and deleted, by   *)
(* ids that are stored, that were deleted, or that no task ever had.       *)
(***************************************************************************)
MissingIds == (1..MissingTasks) \cup {GhostId}

MissingBounded == Bounded(MissingTasks, MissingComments) /\ UNCHANGED ledger

MissingCreate ==
  /\ CreateTaskReq(CreateBody("", <<>>, FALSE, Undefined, NoNextTask))
  /\ MissingBounded

MissingPatch == (\E id \in MissingIds : PatchTaskReq(id, [column |-> "doing"])) /\ MissingBounded

MissingComment == (\E id \in MissingIds : AddCommentReq(id)) /\ MissingBounded

MissingDelete ==
  /\ \E id \in MissingIds : DeleteTaskReq(id) \/ McpDeleteTaskReq(id)
  /\ MissingBounded

MissingNext == MissingCreate \/ MissingPatch \/ MissingComment \/ MissingDelete

SpecMissing == EngineInit /\ [][MissingNext]_vars

\* C36: an update, a deletion or an addComment with an id that no stored
\* task has returns undefined, false and undefined, is answered "Task not
\* found", and leaves the collection as it is: the same records in the same
\* order.
C36_NotFoundUnchanged ==
  [][(last'.op \in {"patch", "comment", "delete", "mcp-delete"} /\ ~Exists(tasks, last'.id))
     => /\ tasks' = tasks
        /\ last'.error = "Task not found"
        /\ updateTaskResult(tasks, last'.id, [column |-> "doing"], clock) = NoTask
        /\ ~deleteTaskResult(tasks, last'.id)
        /\ addCommentResult(tasks, last'.id, Comment("a", "user", 0, 0, last'.id), clock)
             = NoTask]_vars

\* task 1 was deleted before; a second deletion came back with "Task not
\* found" and task 2, updated and commented on, is still as it was
C36_Witness ==
  /\ last.op \in {"delete", "mcp-delete"} /\ last.id = 1 /\ last.error = "Task not found"
  /\ nextId = 3
  /\ Len(tasks) = 1
  /\ tasks[1].id = 2 /\ tasks[1].column = "doing" /\ Len(tasks[1].comments) = 1

(***************************************************************************)
(* SpecRespawn: one task is created, with or without a nextTask; it and    *)
(* the tasks chained from it are moved into review and done, again and     *)
(* again.                                                                  *)
(***************************************************************************)
RespawnColumns == {"review", "done"}

RespawnBounded == Bounded(RespawnTasks, RespawnComments) /\ UNCHANGED ledger

RespawnCreate ==
  /\ tasks = <<>>
  /\ \E nextTask \in {NoNextTask, Template}, requiresReview \in BOOLEAN :
       CreateTaskReq(CreateBody("", <<>>, requiresReview, 0, nextTask))
  /\ RespawnBounded

RespawnMove ==
  /\ \E id \in 1..RespawnTasks, column \in RespawnColumns : MoveTaskReq(id, column)
  /\ RespawnBounded

RespawnNext == RespawnCreate \/ RespawnMove

SpecRespawn == EngineInit /\ [][RespawnNext]_vars

\* the stored tasks whose parentTaskId is P
Children(ts, P) == {i \in 1..Len(ts) : ts[i].parentTaskId = P}

\* the step serves a successful move of P into done, P carrying a nextTask
Completes(P) ==
  /\ last'.op = "move" /\ last'.id = P /\ last'.column = "done" /\ last'.error = ""
  /\ getTask(tasks, P).nextTask.present

\* C37: every successful move of a task P into done made while P carries a
\* nextTask stores exactly one more task whose parentTaskId is P, whether or
\* not P has such a task already, and no other step changes their number;
\* so they are as many as those moves.  A task stored with a parentTaskId
\* carries no nextTask.
C37_SpawnPerCompletion ==
  /\ [][\A P \in 1..RespawnTasks :
          Cardinality(Children(tasks', P))
            = Cardinality(Children(tasks, P)) + (IF Completes(P) THEN 1 ELSE 0)]_vars
  /\ [](\A i \in 1..Len(tasks) :
          tasks[i].parentTaskId # Undefined => ~tasks[i].nextTask.present)

\* task 1, which does not require review, was moved into done twice: two
\* tasks are chained from it, and neither carries a nextTask
C37_Witness ==
  /\ last.op = "move" /\ last.id = 1 /\ last.column = "done" /\ last.chained
  /\ ~tasks[1].requiresReview /\ tasks[1].nextTask.present
  /\ Children(tasks, 1) = {2, 3}
  /\ ~tasks[2].nextTask.present /\ ~tasks[3].nextTask.present

(***************************************************************************)
(* Operations of several sections.  deleteProject awaits withLock on       *)
(* projects.json and then, when the project was found, withLock on         *)
(* tasks.json; moveTask awaits one store call after the other, each a      *)
(* withLock on tasks.json.  withLock releases in its finally block, so a   *)
(* caller has left one section when it asks for the next.                  *)
(***************************************************************************)
\* mutant: deleteProject keeps the lock of projects.json while it asks for
\* the lock of tasks.json
ReleasesBetweenNever == FALSE

\* `await withLock(...)` has run its finally block when the next line runs
ReleasesBetween == TRUE

\* the collection a section works on
CollectionOf(kind) ==
  CASE kind = "splice" -> "projects.json"
    [] kind = "register" -> "agents.json"
    [] OTHER -> "tasks.json"

\* acquire(), called by p for the section o
Acquire(p, o) ==
  /\ op' = [op EXCEPT ![p] = o]
  /\ called' = [called EXCEPT ![o.collection] = Append(@, p)]
  /\ IF LockIsFree(o.collection)
     THEN /\ locked' = [locked EXCEPT ![o.collection] = TRUE]
          /\ pc' = [pc EXCEPT ![p] = "granted"]
          /\ granted' = [granted EXCEPT ![o.collection] = Append(@, p)]
          /\ UNCHANGED queue
     ELSE /\ queue' = [queue EXCEPT ![o.collection] = Append(@, p)]
          /\ pc' = [pc EXCEPT ![p] = "queued"]
          /\ UNCHANGED <<locked, granted>>

\* a call as it starts: its first section, the sections known to follow,
\* and the lock it holds from a section before (none)
Section(kind, id, p, rest) ==
  [kind |-> kind, collection |-> CollectionOf(kind), id |-> id, by |-> p, rest |-> rest,
   held |-> "", updates |-> <<>>, updated |-> NoTask]

\* the calls caller p may make: createTask, registerAgent, deleteProject of
\* a stored and of an unknown project, and moveTask(1, "failed") when its
\* lock-free read finds task 1
Programs(p) ==
  {Section("create", nextId, p, <<>>), Section("register", 1, p, <<>>)}
    \cup {Section("splice", id, p, <<"cascade">>) : id \in {1, GhostId}}
    \cup (IF MoveError(tasks, 1, "failed") = ""
          THEN {[Section("move.update", 1, p, <<>>) EXCEPT
                   !.updates = MoveUpdates(getTask(tasks, 1), "failed", clock)]}
          ELSE {})

\* the function the section hands to withLock, applied to the collection read
SectionResult(o, coll) ==
  CASE o.kind = "splice" -> SpliceProject(coll, o.id)
    [] o.kind = "cascade" -> Cascade(coll, o.id)
    [] o.kind = "move.update" -> updateTask(coll, o.id, o.updates, clock)
    [] o.kind = "move.retry" -> updateTask(coll, o.id, RetryUpdates(o.updated), clock)
    [] o.kind = "move.comment" ->
         addComment(coll, o.id,
                    Comment("system",
                            IF WillRetry(o.updated) THEN "Auto-retry" ELSE "Max retries exhausted",
                            RetryCountOf(o.updated) + 1, MaxRetriesOf(o.updated), o.id), clock)
    [] OTHER -> ApplyOp(o, coll)

\* what the caller goes on to after the section: deleteProject returns
\* false for an unknown id, moveTask returns when updateTask found no task
\* and retries or not by the task updateTask returned
Continuation(o, coll) ==
  CASE o.kind = "splice" -> IF Exists(coll, o.id) THEN o ELSE [o EXCEPT !.rest = <<>>]
    [] o.kind = "move.update" ->
         IF ~Exists(coll, o.id) THEN o
         ELSE LET updated == getTask(SectionResult(o, coll), o.id)
              IN [o EXCEPT !.updated = updated,
                           !.rest = IF WillRetry(updated)
                                    THEN <<"move.retry", "move.comment">>
                                    ELSE <<"move.comment">>]
    [] OTHER -> o

\* a caller starts a call: up to the await on acquire() of its first section
SectionCall(p) ==
  /\ pc[p] = "idle"
  /\ \E o \in Programs(p) :
       /\ Acquire(p, o)
       /\ nextId' = IF o.kind = "create" THEN nextId + 1 ELSE nextId
  /\ UNCHANGED <<tasks, agents, clock, last, fails, data, ledger, fileVars>>

\* const result = fn(data); writeJSON(name, result); the finally block; and
\* the return to the caller, which goes on to its next section or is done
SectionWrite(p) ==
  /\ pc[p] = "section"
  /\ LET c == op[p].collection
         result == SectionResult(op[p], data[p])
         o == Continuation(op[p], data[p])
         end == IF o.rest = <<>> THEN "done" ELSE "between"
     IN /\ tasks' = IF c = "tasks.json" THEN result ELSE tasks
        /\ agents' = IF c = "agents.json" THEN result ELSE agents
        /\ projects' = IF c = "projects.json" THEN result ELSE projects
        /\ IF ReleasesBetween \/ o.rest = <<>>
           THEN Release(p, c, end) /\ op' = [op EXCEPT ![p] = o]
           ELSE /\ pc' = [pc EXCEPT ![p] = end]
                /\ op' = [op EXCEPT ![p] = [o EXCEPT !.held = c]]
                /\ UNCHANGED <<locked, queue, granted>>
  /\ data' = [data EXCEPT ![p] = <<>>]
  /\ UNCHANGED <<nextId, clock, last, fails, called, ledger, disk, writer, reader, versions,
                 files, backups, retries>>

\* the caller's next store call: up to the await on its acquire()
SectionContinue(p) ==
  /\ pc[p] = "between"
  /\ Acquire(p, [op[p] EXCEPT !.kind = Head(op[p].rest),
                              !.collection = CollectionOf(Head(op[p].rest)),
                              !.rest = Tail(op[p].rest)])
  /\ UNCHANGED <<tasks, agents, nextId, clock, last, fails, data, ledger, fileVars>>

(***************************************************************************)
(* SpecDeadlock: every caller makes one call; the callers' sections run    *)
(* as the event loop resumes them.                                         *)
(***************************************************************************)
DeadlockCall == \E p \in Callers : SectionCall(p)

DeadlockResume == \E p \in Callers : Read(p) \/ SectionWrite(p) \/ SectionContinue(p)

DeadlockNext == DeadlockCall \/ DeadlockResume

SpecDeadlock == CascadeInit /\ [][DeadlockNext]_vars

\* the locks caller p holds
Holding(p) ==
  IF pc[p] = "idle" THEN {}
  ELSE {c \in Collections : \/ pc[p] \in {"granted", "section"} /\ op[p].collection = c
                            \/ op[p].held = c}

\* the locks caller p waits for
Requesting(p) == IF pc[p] = "queued" THEN {op[p].collection} ELSE {}

\* p waits for a lock that q holds
WaitsFor(p, q) == Requesting(p) \cap Holding(q) # {}

\* C38: a caller holds or waits for at most one collection lock at a time,
\* a lock with waiters has a holder that can run, and in no set of callers
\* does every one wait for a lock held by one of the set.
C38_DeadlockFree ==
  /\ \A p \in Callers : Cardinality(Holding(p) \cup Requesting(p)) <= 1
  /\ \A c \in Collections :
       queue[c] # <<>> => \E p \in Callers : pc[p] \in {"granted", "section"} /\ c \in Holding(p)
  /\ \A S \in SUBSET Callers :
       S # {} => \E p \in S : \A q \in S : ~WaitsFor(p, q)

\* deleteProject(1) has left its section on projects.json, whose lock is
\* free, and waits for tasks.json, which a moveTask holds for its retry write
C38_Witness ==
  \E p, q \in Callers :
    /\ pc[p] = "queued" /\ op[p].kind = "cascade"
    /\ ~locked["projects.json"] /\ ~Exists(projects, 1)
    /\ pc[q] = "section" /\ op[q].kind = "move.retry"
    /\ WaitsFor(p, q)

\* the event loop resumes every caller whose promise is resolved
SpecDeadlockFair ==
  /\ SpecDeadlock
  /\ \A p \in Callers : WF_vars(Read(p) \/ SectionWrite(p) \/ SectionContinue(p))

\* every call that was started returns
C38_EveryCallReturns == \A p \in Callers : (pc[p] # "idle") ~> (pc[p] = "done")

(***************************************************************************)
(* DELETE /tasks/:id, section by section: the section of deleteTask, the   *)
(* list of all tasks taken when it has returned, and one section of        *)
(* updateTask for every task of that list that names the deleted id.       *)
(* Other requests run between the sections.                                *)
(***************************************************************************)
\* the request up to its first await, the one inside store.deleteTask
CleanCall(p, id) ==
  /\ pc[p] = "idle"
  /\ pc' = [pc EXCEPT ![p] = "clean.delete"]
  /\ op' = [op EXCEPT ![p] = [kind |-> "delete", collection |-> "tasks.json", id |-> id,
                              i |-> 0]]
  /\ last' = [NoRequest EXCEPT !.op = "delete.call", !.id = id]
  /\ UNCHANGED <<tasks, nextId, clock, fails, agents, locked, queue, data, called, granted,
                 ledger, fileVars>>

\* the section of deleteTask; then 404, or `const allTasks = store.getTasks({})`
\* and the loop up to its first await
CleanDelete(p) ==
  /\ pc[p] = "clean.delete"
  /\ tasks' = deleteTask(tasks, op[p].id)
  /\ IF ~Exists(tasks, op[p].id)
     THEN /\ pc' = [pc EXCEPT ![p] = "idle"]
          /\ op' = [op EXCEPT ![p] = NoOp]
          /\ data' = data
          /\ last' = [NoRequest EXCEPT !.op = "delete", !.id = op[p].id,
                        !.error = "Task not found"]
     ELSE /\ pc' = [pc EXCEPT ![p] = "clean.update"]
          /\ op' = [op EXCEPT ![p].i = NextDependent(tasks', 1, op[p].id)]
          /\ data' = [data EXCEPT ![p] = tasks']
          /\ last' = [NoRequest EXCEPT !.op = "delete.section", !.id = op[p].id]
  /\ UNCHANGED <<nextId, clock, fails, agents, locked, queue, called, granted,
                 ledger, fileVars>>

\* the section of one `await store.updateTask(t.id, {dependencies: ...})`, t
\* being a task of allTasks; after the last one, the answer {ok: true}
CleanUpdate(p) ==
  /\ pc[p] = "clean.update"
  /\ IF op[p].i > Len(data[p])
     THEN /\ pc' = [pc EXCEPT ![p] = "idle"]
          /\ op' = [op EXCEPT ![p] = NoOp]
          /\ data' = [data EXCEPT ![p] = <<>>]
          /\ last' = [NoRequest EXCEPT !.op = "delete", !.id = op[p].id]
          /\ UNCHANGED tasks
     ELSE LET t == data[p][op[p].i]
          IN /\ tasks' = updateTask(tasks, t.id,
                           [dependencies |-> WithoutDep(t.dependencies, op[p].id)], clock)
             /\ op' = [op EXCEPT ![p].i = NextDependent(data[p], op[p].i + 1, op[p].id)]
             /\ last' = [NoRequest EXCEPT !.op = "delete.section", !.id = op[p].id]
             /\ UNCHANGED <<pc, data>>
  /\ UNCHANGED <<nextId, clock, fails, agents, locked, queue, called, granted,
                 ledger, fileVars>>

(***************************************************************************)
(* SpecCleanup: task 1 and two tasks that depend on it; task 1 is deleted  *)
(* through REST while the dependencies of the others are PATCHed.          *)
(***************************************************************************)
CleanupIds == {1, 2, 3}

\* the lists a PATCH gives a dependent task: POST and PATCH look no id up
CleanupDeps == {<<1>>, <<1, GhostId>>}

CleanupBounded == Bounded(Cardinality(CleanupIds), CleanupComments) /\ UNCHANGED ledger

CleanupCreate ==
  /\ CreateTaskReq(CreateBody("", IF nextId = 1 THEN <<>> ELSE <<1>>, FALSE, Undefined,
                              NoNextTask))
  /\ CleanupBounded

CleanupPatch ==
  /\ \E id \in CleanupIds \ {1}, dependencies \in CleanupDeps :
       PatchTaskReq(id, [dependencies |-> dependencies])
  /\ CleanupBounded

CleanupCall == CleanCall(1, 1) /\ CleanupBounded

CleanupStep == (CleanDelete(1) \/ CleanUpdate(1)) /\ CleanupBounded

CleanupNext == CleanupCreate \/ CleanupPatch \/ CleanupCall \/ CleanupStep

SpecCleanup == EngineInit /\ [][CleanupNext]_vars

\* caller p's clean-up writes the dependencies of a stored task in this step
CleansOne(p) ==
  /\ pc[p] = "clean.update"
  /\ op[p].i <= Len(data[p])
  /\ op'[p] # op[p]
  /\ Exists(tasks, data[p][op[p].i].id)

\* C39: the update with which the clean-up of a REST deletion strips the
\* deleted id from a task leaves the task with the dependencies it is stored
\* with at that moment, minus the deleted id; what another request has
\* written to the list since the clean-up read it is kept.
C39_CleanupKeepsEdits ==
  [][CleansOne(1)
     => LET id == data[1][op[1].i].id
        IN getTask(tasks', id).dependencies
             = WithoutDep(getTask(tasks, id).dependencies, op[1].id)]_vars

\* the deletion of task 1 has been answered; task 3 had been PATCHed to
\* depend on task 1 and on another id before the deletion began, and has
\* kept the other id
C39_Cleaned ==
  /\ last.op = "delete" /\ last.id = 1 /\ last.error = ""
  /\ Exists(tasks, 2) /\ getTask(tasks, 2).dependencies = <<>>
  /\ Exists(tasks, 3) /\ getTask(tasks, 3).dependencies = <<GhostId>>

(***************************************************************************)
(* hasCycle, one iteration of its while loop per step.  The frame of the   *)
(* call is op[p]: the stack, the visited set, and as history the ids whose *)
(* stored task was looked up (expanded) and the number of iterations done. *)
(***************************************************************************)
\* const visited = new Set(); const stack = [...dependencies]; one call per
\* store
LoopCall(p, taskId, dependencies) ==
  /\ pc[p] = "idle"
  /\ last = NoRequest
  /\ pc' = [pc EXCEPT ![p] = "cycle.loop"]
  /\ op' = [op EXCEPT ![p] = [kind |-> "hasCycle", collection |-> "", id |-> taskId,
                              dependencies |-> dependencies, stack |-> dependencies,
                              visited |-> {}, expanded |-> <<>>, steps |-> 0]]
  /\ last' = [NoRequest EXCEPT !.op = "hasCycle.call", !.id = taskId,
                !.body = [dependencies |-> dependencies]]
  /\ UNCHANGED <<tasks, nextId, clock, fails, agents, locked, queue, data, called, granted,
                 ledger, fileVars>>

\* hasCycle returns: the frame is kept as it was at the return
LoopReturn(p, frame, answer) ==
  /\ pc' = [pc EXCEPT ![p] = "idle"]
  /\ op' = [op EXCEPT ![p] = frame]
  /\ last' = [NoRequest EXCEPT !.op = "hasCycle", !.id = frame.id,
                !.body = [dependencies |-> frame.dependencies],
                !.error = IF answer THEN "Circular dependency detected" ELSE ""]

\* the test of the while and one pass through its body
LoopIterate(p) ==
  /\ pc[p] = "cycle.loop"
  /\ LET o == op[p]
     IN IF o.stack = <<>> THEN LoopReturn(p, o, FALSE)
        ELSE LET current == o.stack[Len(o.stack)]
                 rest == SubSeq(o.stack, 1, Len(o.stack) - 1)
                 popped == [o EXCEPT !.stack = rest, !.steps = @ + 1]
             IN IF current = o.id THEN LoopReturn(p, popped, TRUE)
                ELSE /\ op' = [op EXCEPT ![p] =
                          IF Seen(o.visited, current) THEN popped
                          ELSE [popped EXCEPT
                                  !.visited = @ \cup {current},
                                  !.expanded = Append(@, current),
                                  !.stack = IF Exists(tasks, current)
                                            THEN rest \o getTask(tasks, current).dependencies
                                            ELSE rest]]
                     /\ last' = [NoRequest EXCEPT !.op = "hasCycle.loop", !.id = o.id]
                     /\ UNCHANGED pc
  /\ UNCHANGED <<tasks, nextId, clock, fails, agents, locked, queue, data, called, granted,
                 ledger, fileVars>>

(***************************************************************************)
(* SpecLoop: every stored graph on the ids of LoopIds (each id stored or   *)
(* not, cycles included); the dependencies of task 1 are checked against   *)
(* every proposed list of up to LoopDeps ids, stored or not, repeated or   *)
(* not.  The loop is synchronous code: once called it runs.                *)
(***************************************************************************)
LoopIds == {1, 2, 3}

RECURSIVE ListsUpTo(_, _)
\* the lists of at most n elements of S
ListsUpTo(S, n) ==
  IF n = 0 THEN {<<>>}
  ELSE LET shorter == ListsUpTo(S, n - 1)
       IN shorter \cup {Append(l, x) : l \in shorter, x \in S}

LoopProposals == ListsUpTo(LoopIds \cup {GhostId}, LoopDeps)

LoopInit == GraphInit(Cardinality(LoopIds))

LoopCheck == (\E dependencies \in LoopProposals : LoopCall(1, 1, dependencies))

LoopStep == LoopIterate(1)

LoopNext == LoopCheck \/ LoopStep

SpecLoop == LoopInit /\ [][LoopNext]_vars /\ WF_vars(LoopStep)

RECURSIVE TotalDeps(_, _)
\* the number of entries of the dependency lists of the first n stored tasks
TotalDeps(ts, n) ==
  IF n = 0 THEN 0 ELSE TotalDeps(ts, n - 1) + Len(ts[n].dependencies)

NoRepeat(seq) == \A i, j \in 1..Len(seq) : seq[i] = seq[j] => i = j

InLoop(p) == op[p].kind = "hasCycle"

\* no id is looked up twice in one call, and the iterations done plus those
\* still on the stack never exceed the entries of the proposed list and of
\* the stored lists together
LoopBound(p) ==
  InLoop(p) =>
    /\ NoRepeat(op[p].expanded)
    /\ op[p].steps + Len(op[p].stack)
         <= Len(op[p].dependencies) + TotalDeps(tasks, Len(tasks))

\* the answer of the loop is the answer of hasCycle
LoopAnswer ==
  last.op = "hasCycle"
    => (last.error # "") = hasCycle(tasks, last.id, last.body.dependencies)

\* C40: the cycle check terminates on every stored graph and every proposed
\* list, stored cycles that miss the edited task and repeated or unknown
\* proposed ids included: every call returns, within as many iterations as
\* the proposed and the stored lists have entries, and looks no id up twice.
C40_CycleCheckTerminates ==
  /\ [](LoopBound(1) /\ LoopAnswer)
  /\ (pc[1] = "cycle.loop") ~> (pc[1] = "idle" /\ last.op = "hasCycle")

\* the check of task 1 has answered "no cycle" for a proposed list that
\* names task 2 twice and an unknown id, in a store where tasks 2 and 3
\* depend on each other; both were looked up
C40_Witness ==
  /\ pc[1] = "idle" /\ last.op = "hasCycle" /\ last.error = ""
  /\ last.body.dependencies = <<2, GhostId, 2>>
  /\ Exists(tasks, 2) /\ getTask(tasks, 2).dependencies = <<3>>
  /\ Exists(tasks, 3) /\ getTask(tasks, 3).dependencies = <<2>>
  /\ Range(op[1].expanded) = {2, 3, GhostId}
  /\ op[1].steps = 5

====
